---------------------------- MODULE Spec2Model ----------------------------
(***************************************************************************)
(* A model of the chunking and RAGAS-metric core of the                    *)
(* rag-chunking-comparison repository.                                     *)
(*                                                                         *)
(*   sem : LightweightChunker.semantic_chunk   (src/api/chunking.py)       *)
(*   nv  : LightweightChunker.naive_chunk and NaiveChunker                 *)
(*         ._token_based_chunk (src/api/chunking.py, chunking_old.py)      *)
(*   met : RAGASMetrics                        (src/api/ragas_metrics.py)  *)
(*   ev  : RAGASEvaluator: retrieval, extractive answers and the metrics   *)
(*         it reports                          (src/api/evaluation.py)     *)
(*   an  : StatisticalAnalyzer                 (src/api/analysis.py)       *)
(*   srv : the evaluation request handler and the process it runs in       *)
(*                                             (src/api/evaluation.py)     *)
(*   tg  : DomainSpecificTestGenerator         (src/api/test_generator.py) *)
(*   ch  : a LightweightChunker serving repeated semantic_chunk calls      *)
(*                                             (src/api/chunking.py)       *)
(*                                                                         *)
(* Each component has its own specification (SpecSemantic, SpecNaive,      *)
(* SpecNaive50, SpecFaith, ...) over the same variables; a component that  *)
(* a specification does not exercise stays in its idle value.              *)
(***************************************************************************)
EXTENDS Integers, Sequences, FiniteSets, TLC

VARIABLES sem, nv, met, ev, an, srv, tg, ch

vars == <<sem, nv, met, ev, an, srv, tg, ch>>

----------------------------------------------------------------------------
(* Generic helpers                                                         *)

Range(s) == {s[k] : k \in DOMAIN s}

Min(a, b) == IF a <= b THEN a ELSE b

\* Python's s[lo:hi] on a sequence, with 0-based lo and exclusive hi: a
\* negative index counts from the end, and both are clipped to the sequence.
Slice(s, lo, hi) ==
    LET Clip(x) == IF x < 0 THEN (IF Len(s) + x < 0 THEN 0 ELSE Len(s) + x)
                   ELSE Min(x, Len(s))
        l == Clip(lo)
        h == Clip(hi)
    IN  IF l >= h THEN <<>> ELSE [k \in 1..(h - l) |-> s[l + k]]

RECURSIVE SumSeq(_)
SumSeq(s) == IF s = <<>> THEN 0 ELSE s[1] + SumSeq(Tail(s))

----------------------------------------------------------------------------
(* Semantic chunker: LightweightChunker.semantic_chunk                     *)

\* Bounds of the semantic-chunker model.
MaxSentences == 3
MaxSentenceTokens == 2

\* Sentence embeddings are 2-dimensional integer vectors (the provider
\* returns 1536 floats; the walk only uses means and cosines of them).
EmbeddingChoices == {<<1, 0>>, <<0, 1>>, <<1, 1>>}

\* similarity_threshold as a fraction <<p, q>> = p/q, q > 0.
ThresholdChoices == {<<7, 10>>, <<1, 1>>}

MaxTokensChoices == {1, 3}

MinTokensChoices == {0, 2}

Dot(a, b) == a[1] * b[1] + a[2] * b[2]

\* np.mean(vectors, axis=0) of the embeddings at 1-based positions idxs:
\* the mean is sum / n, kept as the pair of the component sums and n.
MeanEmbedding(embs, idxs) ==
    [sum |-> <<SumSeq([k \in 1..Len(idxs) |-> embs[idxs[k]][1]]),
               SumSeq([k \in 1..Len(idxs) |-> embs[idxs[k]][2]])>>,
     n   |-> Len(idxs)]

\* sklearn cosine_similarity([m], [e])[0][0] for m = mean.sum / mean.n:
\* dot(m, e) / (|m| |e|), where a zero norm is replaced by 1 (so the result
\* is 0).  The square root is not rational, so the value is kept as the pair
\* <<d, nn>> standing for d / sqrt(nn); the factor 1/n of the mean cancels
\* between numerator and denominator.
CosineSimilarity(mean, e) ==
    LET d  == Dot(mean.sum, e)
        nn == Dot(mean.sum, mean.sum) * Dot(e, e)
    IN  IF nn = 0 THEN <<0, 1>> ELSE <<d, nn>>

\* similarity >= threshold, for similarity = sim[1]/sqrt(sim[2]) and
\* threshold = thr[1]/thr[2].
SimGE(sim, thr) ==
    IF thr[1] >= 0
    THEN sim[1] >= 0 /\ sim[1] * sim[1] * thr[2] * thr[2] >= thr[1] * thr[1] * sim[2]
    ELSE sim[1] >= 0 \/ sim[1] * sim[1] * thr[2] * thr[2] <= thr[1] * thr[1] * sim[2]

\* Two similarity values are the same number.
SimEq(a, b) ==
    /\ (a[1] >= 0) = (b[1] >= 0)
    /\ a[1] * a[1] * b[2] = b[1] * b[1] * a[2]

\* chunking.py:103: the embeddings averaged for the comparison are those at
\* positions range(len(current_chunk)), i.e. the first len(current_chunk)
\* rows of embeddings_array (1-based here).
ChunkEmbeddingRows(current_chunk) == [k \in 1..Len(current_chunk) |-> k]

ShouldAppendNoBudget(similarity, thr, current_tokens, sentence_tokens, max_tokens) ==
    SimGE(similarity, thr)

\* chunking.py:107-108: the merge condition.
ShouldAppend(similarity, thr, current_tokens, sentence_tokens, max_tokens) ==
    /\ SimGE(similarity, thr)
    /\ current_tokens + sentence_tokens <= max_tokens

MeetsMinimumAlways(current_tokens, min_tokens) == TRUE

\* chunking.py:113 and :129: the minimum-size filter on an emitted chunk.
MeetsMinimum(current_tokens, min_tokens) == current_tokens >= min_tokens

\* chunking.py:115-122 / 131-138: the chunk record appended to chunks.  The
\* text is the sentences joined by a space; here the sentences are kept by
\* their 1-based position in the document.
MakeChunk(chunks, current_chunk, current_tokens) ==
    [sentences      |-> current_chunk,
     index          |-> Len(chunks),
     token_count    |-> current_tokens,
     sentence_count |-> Len(current_chunk)]

NewChunkKeepsOld(current_chunk, s) == Append(current_chunk, s)

\* chunking.py:125: the chunk opened by a sentence that was not merged.
NewChunk(current_chunk, s) == <<s>>

NoCmp == [i |-> 0]

SemIdle ==
    [pc |-> "idle", sentence_tokens |-> <<>>, embeddings_array |-> <<>>,
     similarity_threshold |-> <<1, 1>>, max_tokens |-> 0, min_tokens |-> 0,
     i |-> 0, current_chunk |-> <<>>, current_tokens |-> 0, chunks |-> <<>>,
     last |-> NoCmp, closed |-> <<>>]

\* A call semantic_chunk(text, similarity_threshold, max_tokens, min_tokens):
\* text is given by its sentences' token counts and embeddings.
SemInit ==
    \E n \in 0..MaxSentences :
      \E toks \in [1..n -> 1..MaxSentenceTokens], embs \in [1..n -> EmbeddingChoices],
         thr \in ThresholdChoices, mx \in MaxTokensChoices, mn \in MinTokensChoices :
        sem = [SemIdle EXCEPT !.pc = "start", !.sentence_tokens = toks,
                              !.embeddings_array = embs,
                              !.similarity_threshold = thr,
                              !.max_tokens = mx, !.min_tokens = mn]

\* chunking.py:83-93: no sentences -> return []; otherwise start the walk.
SemStart ==
    /\ sem.pc = "start"
    /\ sem' = [sem EXCEPT !.pc = IF sem.sentence_tokens = <<>> THEN "done" ELSE "walk",
                          !.i = 1, !.chunks = <<>>, !.current_chunk = <<>>,
                          !.current_tokens = 0]
    /\ UNCHANGED <<nv, met, ev, an, srv, tg, ch>>

\* chunking.py:95-126: one iteration of the sentence loop.
SemStep ==
    /\ sem.pc = "walk"
    /\ sem.i <= Len(sem.sentence_tokens)
    /\ LET i == sem.i
           sentence_tokens == sem.sentence_tokens[i]
       IN  IF sem.current_chunk = <<>>
           THEN sem' = [sem EXCEPT !.current_chunk = <<i>>,
                                   !.current_tokens = sentence_tokens,
                                   !.i = i + 1]
           ELSE
             LET chunk_embedding ==
                   MeanEmbedding(sem.embeddings_array, ChunkEmbeddingRows(sem.current_chunk))
                 similarity == CosineSimilarity(chunk_embedding, sem.embeddings_array[i])
                 cmp == [i |-> i, open |-> sem.current_chunk,
                         tokens |-> sem.current_tokens, similarity |-> similarity]
             IN  IF ShouldAppend(similarity, sem.similarity_threshold,
                                 sem.current_tokens, sentence_tokens, sem.max_tokens)
                 THEN sem' = [sem EXCEPT !.current_chunk = Append(sem.current_chunk, i),
                                         !.current_tokens = sem.current_tokens + sentence_tokens,
                                         !.last = cmp, !.i = i + 1]
                 ELSE sem' = [sem EXCEPT
                        !.chunks = IF MeetsMinimum(sem.current_tokens, sem.min_tokens)
                                   THEN Append(sem.chunks,
                                               MakeChunk(sem.chunks, sem.current_chunk,
                                                         sem.current_tokens))
                                   ELSE sem.chunks,
                        !.closed = Append(sem.closed, [sentences |-> sem.current_chunk,
                                                       tokens |-> sem.current_tokens]),
                        !.current_chunk = NewChunk(sem.current_chunk, i),
                        !.current_tokens = sentence_tokens,
                        !.last = cmp, !.i = i + 1]
    /\ UNCHANGED <<nv, met, ev, an, srv, tg, ch>>

\* chunking.py:128-140: the flush of the last open chunk, and the return.
SemFlush ==
    /\ sem.pc = "walk"
    /\ sem.i > Len(sem.sentence_tokens)
    /\ sem' = [sem EXCEPT
         !.chunks = IF sem.current_chunk # <<>> /\ MeetsMinimum(sem.current_tokens, sem.min_tokens)
                    THEN Append(sem.chunks,
                                MakeChunk(sem.chunks, sem.current_chunk, sem.current_tokens))
                    ELSE sem.chunks,
         !.closed = IF sem.current_chunk # <<>>
                    THEN Append(sem.closed, [sentences |-> sem.current_chunk,
                                             tokens |-> sem.current_tokens])
                    ELSE sem.closed,
         !.pc = "done"]
    /\ UNCHANGED <<nv, met, ev, an, srv, tg, ch>>

----------------------------------------------------------------------------
(* Naive chunker: LightweightChunker.naive_chunk (impl = "lightweight")    *)
(* and NaiveChunker._token_based_chunk (impl = "old")                      *)

\* Bounds of the naive-chunker model.
MaxTokens == 7
MaxChunkSize == 3
\* Upper bound of total_tokens in the chunk_size = 50, overlap = 10 scenario.
MaxDocTokens == 130

NaiveImpls == {"lightweight", "old"}

NaiveStepNoOverlap(chunk_size, overlap) == chunk_size

\* chunking.py:66 (the step of range) and chunking_old.py:209 (i += ...).
NaiveStepSize(chunk_size, overlap) == chunk_size - overlap

NaiveWindowShort(tokens, i, chunk_size) == Slice(tokens, i, i + chunk_size - 1)

\* chunking.py:67 and chunking_old.py:199: tokens[i:i + chunk_size].
NaiveWindow(tokens, i, chunk_size) == Slice(tokens, i, i + chunk_size)

\* chunking.py:69-76 and chunking_old.py:202-207: the chunk record.  The
\* text is the decoding of chunk_tokens; the record keeps the tokens.
NaiveMakeChunk(impl, chunks, tokens, chunk_tokens, i, chunk_size) ==
    IF impl = "lightweight"
    THEN [tokens |-> chunk_tokens, index |-> Len(chunks),
          token_count |-> Len(chunk_tokens), start_token |-> i]
    ELSE [tokens |-> chunk_tokens, token_count |-> Len(chunk_tokens),
          start_token |-> i, end_token |-> Min(i + chunk_size, Len(tokens))]

NvIdle ==
    [pc |-> "idle", impl |-> "lightweight", tokens |-> <<>>, chunk_size |-> 1,
     overlap |-> 0, i |-> 0, chunks |-> <<>>]

\* A call with chunk_size > 0 and 0 <= overlap < chunk_size on a text of T
\* tokens; the tokens are told apart by their position.
NvInit ==
    \E impl \in NaiveImpls, T \in 0..MaxTokens, cs \in 1..MaxChunkSize :
      \E ov \in 0..(cs - 1) :
        nv = [NvIdle EXCEPT !.pc = "start", !.impl = impl,
                            !.tokens = [k \in 1..T |-> k],
                            !.chunk_size = cs, !.overlap = ov]

\* A call as the request handlers make it (chunking.py:189-193,
\* chunking_old.py:242-253): chunk_size and overlap come from the request's
\* config and nothing checks overlap < chunk_size.
NvInitConfig ==
    \E impl \in NaiveImpls, T \in 0..MaxTokens, cs \in 1..MaxChunkSize :
      \E ov \in 0..(MaxChunkSize + 1) :
        nv = [NvIdle EXCEPT !.pc = "start", !.impl = impl,
                            !.tokens = [k \in 1..T |-> k],
                            !.chunk_size = cs, !.overlap = ov]

\* chunking.py:66: range(0, len(tokens), step) yields i while i < len(tokens)
\* for a positive step and nothing for a negative one; chunking_old.py:198:
\* while i < len(tokens).
NaiveLoopContinues(impl, i, n, step) ==
    IF impl = "lightweight" THEN step > 0 /\ i < n ELSE i < n

\* The end-to-end scenario: chunk_size = 50, overlap = 10, total_tokens >= 50.
NvInit50 ==
    \E impl \in NaiveImpls, T \in 50..MaxDocTokens :
        nv = [NvIdle EXCEPT !.pc = "start", !.impl = impl,
                            !.tokens = [k \in 1..T |-> k],
                            !.chunk_size = 50, !.overlap = 10]

\* chunking.py:63-66 and chunking_old.py:194-197: tokenize, chunks = [], i = 0.
\* range() with a step of 0 raises ValueError, which the handler answers
\* with status 500 (chunking.py:251-255).
NaiveStart ==
    /\ nv.pc = "start"
    /\ nv' = [nv EXCEPT !.pc = IF /\ nv.impl = "lightweight"
                                  /\ NaiveStepSize(nv.chunk_size, nv.overlap) = 0
                               THEN "raised" ELSE "loop",
                        !.i = 0, !.chunks = <<>>]
    /\ UNCHANGED <<sem, met, ev, an, srv, tg, ch>>

\* chunking.py:66-76 and chunking_old.py:198-209: one window.  A loop that
\* has made more windows than there are tokens is not followed further.
NaiveStep ==
    /\ nv.pc = "loop"
    /\ NaiveLoopContinues(nv.impl, nv.i, Len(nv.tokens),
                          NaiveStepSize(nv.chunk_size, nv.overlap))
    /\ Len(nv.chunks) <= Len(nv.tokens)
    /\ LET chunk_tokens == NaiveWindow(nv.tokens, nv.i, nv.chunk_size)
       IN  nv' = [nv EXCEPT
                    !.chunks = Append(nv.chunks,
                                      NaiveMakeChunk(nv.impl, nv.chunks, nv.tokens,
                                                     chunk_tokens, nv.i, nv.chunk_size)),
                    !.i = nv.i + NaiveStepSize(nv.chunk_size, nv.overlap)]
    /\ UNCHANGED <<sem, met, ev, an, srv, tg, ch>>

\* chunking.py:78 and chunking_old.py:211: return chunks.
NaiveReturn ==
    /\ nv.pc = "loop"
    /\ ~NaiveLoopContinues(nv.impl, nv.i, Len(nv.tokens),
                           NaiveStepSize(nv.chunk_size, nv.overlap))
    /\ nv' = [nv EXCEPT !.pc = "done"]
    /\ UNCHANGED <<sem, met, ev, an, srv, tg, ch>>

----------------------------------------------------------------------------
(* Texts                                                                   *)
(*                                                                         *)
(* A text is a sequence of whitespace-separated words.  Each is a record   *)
(* [w, end]: the word w ("" for none) followed, when end is TRUE, by the   *)
(* sentence mark ".", so <<Wd("data"), WdEnd("is"), Stop>> is the string   *)
(* "data is. .".  The empty sequence is the empty string.                  *)

Wd(w) == [w |-> w, end |-> FALSE]

WdEnd(w) == [w |-> w, end |-> TRUE]

Stop == [w |-> "", end |-> TRUE]

\* len(w) of the words of the model's vocabulary.
WordLen(w) ==
    CASE w = ""         -> 0
      [] w = "is"       -> 2
      [] w = "42"       -> 2
      [] w = "No"       -> 2
      [] w = "no"       -> 2
      [] w = "to"       -> 2
      [] w = "the"      -> 3
      [] w = "what"     -> 4
      [] w = "this"     -> 4
      [] w = "data"     -> 4
      [] w = "from"     -> 4
      [] w = "chunk"    -> 5
      [] w = "Paris"    -> 5
      [] w = "paris"    -> 5
      [] w = "found"    -> 5
      [] w = "chunks"   -> 6
      [] w = "answer"   -> 6
      [] w = "Unable"   -> 6
      [] w = "unable"   -> 6
      [] w = "context"  -> 7
      [] w = "semantic" -> 8
      [] w = "relevant" -> 8
      [] w = "question" -> 8
      [] w = "generate" -> 8
      [] w = "provided" -> 8

\* w.lower()
LowerWord(w) ==
    CASE w = "Paris"  -> "paris"
      [] w = "No"     -> "no"
      [] w = "Unable" -> "unable"
      [] OTHER        -> w

\* w[0].isupper()
IsUpperFirst(w) == w \in {"Paris", "No", "Unable"}

\* w matches \d+
IsNumber(w) == w = "42"

\* `a in b` (substring) for two words of the vocabulary.
SubWord(a, b) ==
    \/ a = b
    \/ a = ""
    \/ <<a, b>> \in {<<"is", "this">>, <<"is", "paris">>, <<"is", "Paris">>,
                     <<"chunk", "chunks">>}

\* b.endswith(a) for two words of the vocabulary.
SuffixWord(a, b) ==
    \/ a = b
    \/ a = ""
    \/ <<a, b>> \in {<<"is", "this">>, <<"is", "paris">>, <<"is", "Paris">>}

\* len(t) of a whitespace-separated word, its sentence mark included.
TokLen(t) == WordLen(t.w) + (IF t.end THEN 1 ELSE 0)

\* t.lower()
LowerTok(t) == [w |-> LowerWord(t.w), end |-> t.end]

\* text.lower()
LowerText(text) == [k \in DOMAIN text |-> LowerTok(text[k])]

\* " ".join(contexts)
JoinContexts(contexts) ==
    LET RECURSIVE J(_)
        J(cs) == IF cs = <<>> THEN <<>> ELSE cs[1] \o J(Tail(cs))
    IN  J(contexts)

\* `term in text` for a term without spaces: it lies inside one word of the
\* text; a term ending in the sentence mark must end a marked word.
TermInText(term, text) ==
    \E k \in DOMAIN text :
        IF term.end THEN text[k].end /\ SuffixWord(term.w, text[k].w)
        ELSE SubWord(term.w, text[k].w)

\* re.split(r'[.!?;]+', text) followed by strip() and split() of each piece:
\* the pieces as sequences of plain words.
SplitSentences(text) ==
    LET RECURSIVE S(_, _)
        S(rest, cur) ==
          IF rest = <<>> THEN <<cur>>
          ELSE LET t   == rest[1]
                   nxt == IF t.w = "" THEN cur ELSE Append(cur, t.w)
               IN  IF t.end THEN <<nxt>> \o S(Tail(rest), <<>>)
                   ELSE S(Tail(rest), nxt)
    IN  S(text, <<>>)

----------------------------------------------------------------------------
(* Scores: Python floats, kept as fractions <<n, d>> with d > 0            *)

RECURSIVE GCD(_, _)
GCD(a, b) == IF b = 0 THEN a ELSE GCD(b, a % b)

Abs(x) == IF x < 0 THEN -x ELSE x

\* n / d in lowest terms; a zero denominator (Python's ZeroDivisionError) is
\* kept as <<n, 0>> and carried through the arithmetic.
Frac(n, d) ==
    LET g == GCD(Abs(n), Abs(d))
    IN  IF d = 0 THEN <<n, 0>>
        ELSE IF n = 0 THEN <<0, 1>>
        ELSE IF d < 0 THEN <<(-n) \div g, (-d) \div g>>
        ELSE <<n \div g, d \div g>>

Zero == <<0, 1>>

One == <<1, 1>>

Half == <<1, 2>>

FAdd(a, b) == Frac(a[1] * b[2] + b[1] * a[2], a[2] * b[2])

FMul(a, b) == Frac(a[1] * b[1], a[2] * b[2])

\* a / b for b > 0
FDiv(a, b) == Frac(a[1] * b[2], a[2] * b[1])

FLe(a, b) == a[1] * b[2] <= b[1] * a[2]

FMin(a, b) == IF FLe(a, b) THEN a ELSE b

\* np.mean(scores) if scores else 0.0
MeanOrZero(scores) ==
    LET RECURSIVE Sum(_)
        Sum(s) == IF s = <<>> THEN Zero ELSE FAdd(s[1], Sum(Tail(s)))
    IN  IF scores = <<>> THEN Zero ELSE FDiv(Sum(scores), <<Len(scores), 1>>)

InUnit(x) == x[2] > 0 /\ FLe(Zero, x) /\ FLe(x, One)

----------------------------------------------------------------------------
(* RAGASMetrics: faithfulness                                              *)

ExtractStatementsMin3(text) ==
    SelectSeq(SplitSentences(text), LAMBDA sent : Len(sent) >= 3)

\* ragas_metrics.py:363-374
ExtractStatements(text) ==
    SelectSeq(SplitSentences(text), LAMBDA sent : Len(sent) > 3)

FaithStopWords == {"this", "that", "these", "those", "with", "from"}

\* ragas_metrics.py:376-389; statement is a sequence of plain words and
\* context the lowercased joined context text.
IsStatementSupported(statement, context) ==
    LET key_words == SelectSeq([k \in DOMAIN statement |-> LowerWord(statement[k])],
                            LAMBDA w : WordLen(w) > 3 /\ w \notin FaithStopWords)
        found == Len(SelectSeq(key_words, LAMBDA w : TermInText(Wd(w), context)))
    IN  IF key_words = <<>> THEN TRUE
        ELSE 10 * found >= 6 * Len(key_words)

\* ragas_metrics.py:65-81
SingleFaithfulness(answer, contexts) ==
    IF answer = <<>> \/ contexts = <<>> THEN Zero
    ELSE LET statements   == ExtractStatements(answer)
             context_text == LowerText(JoinContexts(contexts))
             supported    == Len(SelectSeq(statements, LAMBDA st : IsStatementSupported(st, context_text)))
         IN  IF statements = <<>> THEN One
             ELSE Frac(supported, Len(statements))

\* ragas_metrics.py:197-217: the score compute_faithfulness appends for one
\* (answer, context_list) pair.
FaithfulnessScore(answer, context_list) ==
    IF answer = <<>> \/ context_list = <<>> THEN Zero
    ELSE LET statements   == ExtractStatements(answer)
             context_text == LowerText(JoinContexts(context_list))
             supported    == Len(SelectSeq(statements, LAMBDA st : IsStatementSupported(st, context_text)))
         IN  IF statements = <<>> THEN One
             ELSE Frac(supported, Len(statements))

----------------------------------------------------------------------------
(* RAGASMetrics: answer relevancy                                          *)

RelevancyStopWords ==
    {Wd(w) : w \in {"the", "a", "an", "is", "are", "was", "were",
                    "what", "how", "why", "when", "where"}}

\* ragas_metrics.py:391-405
FallbackRelevancy(question, answer) ==
    LET q_words == Range(LowerText(question)) \ RelevancyStopWords
        a_words == Range(LowerText(answer)) \ RelevancyStopWords
        overlap == Cardinality(q_words \cap a_words)
    IN  IF q_words = {} THEN Half
        ELSE FMin(Frac(overlap, Cardinality(q_words)), One)

\* The outcome of encoding two texts and taking the cosine of the vectors:
\* a value in [-1, 1], or an exception raised by the embedding call.
CosineChoices == {<<-1, 2>>, <<1, 2>>}

CosineOutcomes ==
    {[raised |-> FALSE, value |-> c] : c \in CosineChoices}
      \cup {[raised |-> TRUE, value |-> Zero]}

\* ragas_metrics.py:83-97; cos is the provider's cosine for (question, answer).
SingleRelevancy(embedding_model, question, answer, cos) ==
    IF question = <<>> \/ answer = <<>> THEN Zero
    ELSE IF embedding_model /\ ~cos.raised THEN cos.value
    ELSE FallbackRelevancy(question, answer)

\* ragas_metrics.py:229-246: the score compute_answer_relevancy appends.
RelevancyScore(embedding_model, question, answer, cos) ==
    IF question = <<>> \/ answer = <<>> THEN Zero
    ELSE IF embedding_model /\ ~cos.raised THEN cos.value
    ELSE FallbackRelevancy(question, answer)

----------------------------------------------------------------------------
(* RAGASMetrics: answer correctness                                        *)

\* s[:n]
Head_(s, n) == SubSeq(s, 1, Min(n, Len(s)))

\* ragas_metrics.py:490-508: the set of fact strings of a text.  A number
\* is matched without its sentence mark (\b\d+\b); entities and key terms
\* are whitespace-separated words, lowercased.
ExtractFacts(text) ==
    LET numbers   == {Wd(text[k].w) : k \in {j \in DOMAIN text : IsNumber(text[j].w)}}
        entities  == SelectSeq(text, LAMBDA t : IsUpperFirst(t.w) /\ TokLen(t) > 2)
        key_terms == SelectSeq(LowerText(text), LAMBDA t : TokLen(t) > 6)
    IN  numbers \cup Range(LowerText(Head_(entities, 10))) \cup Range(Head_(key_terms, 10))

\* ragas_metrics.py:466-488
FactualSimilarity(answer, ground_truth) ==
    LET answer_facts == ExtractFacts(answer)
        gt_facts     == ExtractFacts(ground_truth)
        common       == Cardinality(answer_facts \cap gt_facts)
        precision    == Frac(common, Cardinality(answer_facts))
        recall       == Frac(common, Cardinality(gt_facts))
    IN  IF gt_facts = {} THEN (IF answer_facts = {} THEN One ELSE Half)
        ELSE IF answer_facts = {} THEN Zero
        ELSE IF FAdd(precision, recall) = Zero THEN Zero
        ELSE FDiv(FMul(<<2, 1>>, FMul(precision, recall)), FAdd(precision, recall))

\* ragas_metrics.py:99-116; cos is the provider's cosine for (answer,
\* ground_truth).
SingleCorrectness(embedding_model, answer, ground_truth, cos) ==
    IF answer = <<>> \/ ground_truth = <<>> THEN Zero
    ELSE LET factual_score  == FactualSimilarity(answer, ground_truth)
             semantic_score == IF embedding_model /\ ~cos.raised THEN cos.value
                               ELSE factual_score
         IN  FAdd(FMul(Half, factual_score), FMul(Half, semantic_score))

\* ragas_metrics.py:336-357: the score compute_answer_correctness appends.
CorrectnessScore(embedding_model, answer, ground_truth, cos) ==
    IF answer = <<>> \/ ground_truth = <<>> THEN Zero
    ELSE LET factual_score  == FactualSimilarity(answer, ground_truth)
             semantic_score == IF embedding_model /\ ~cos.raised THEN cos.value
                               ELSE factual_score
             combined_score == FAdd(FMul(Half, factual_score), FMul(Half, semantic_score))
         IN  combined_score

----------------------------------------------------------------------------
(* RAGASMetrics: context precision                                         *)

\* ragas_metrics.py:407-423
IsContextRelevantToAnswer(context, answer, question) ==
    LET context_lower == LowerText(context)
        key_terms == {t \in Range(LowerText(question)) \cup Range(LowerText(answer)) :
                        TokLen(t) > 4}
        matches == Cardinality({t \in key_terms : TermInText(t, context_lower)})
    IN  /\ matches >= 1
        /\ 10 * matches >= 3 * Cardinality(key_terms)

\* ragas_metrics.py:123-126: 1.0 / 0.0 per context, kept as 1 / 0.
RelevanceScores(question, contexts, ground_truth) ==
    [k \in DOMAIN contexts |->
        IF IsContextRelevantToAnswer(contexts[k], ground_truth, question) THEN 1 ELSE 0]

PrecisionAtKOffByOne(relevant_so_far, k) == Frac(relevant_so_far, k + 2)

\* ragas_metrics.py:137: relevant_so_far / (k + 1), k the 0-based position.
PrecisionAtK(relevant_so_far, k) == Frac(relevant_so_far, k + 1)

\* ragas_metrics.py:131-138: the loop over enumerate(relevance_scores).
PrecisionSum(relevance_scores) ==
    LET RECURSIVE Go(_, _, _)
        Go(k, relevant_so_far, precision_sum) ==
          IF k >= Len(relevance_scores) THEN precision_sum
          ELSE IF relevance_scores[k + 1] = 1
               THEN Go(k + 1, relevant_so_far + 1,
                       FAdd(precision_sum, PrecisionAtK(relevant_so_far + 1, k)))
               ELSE Go(k + 1, relevant_so_far, precision_sum)
    IN  Go(0, 0, Zero)

\* ragas_metrics.py:118-140
SinglePrecision(question, contexts, ground_truth) ==
    IF contexts = <<>> THEN Zero
    ELSE LET relevance_scores == RelevanceScores(question, contexts, ground_truth)
         IN  IF SumSeq(relevance_scores) = 0 THEN Zero
             ELSE FDiv(PrecisionSum(relevance_scores), <<SumSeq(relevance_scores), 1>>)

\* ragas_metrics.py:262-288: the score compute_context_precision appends.
PrecisionScore(question, context_list, ground_truth) ==
    IF context_list = <<>> THEN Zero
    ELSE LET relevance_scores == RelevanceScores(question, context_list, ground_truth)
         IN  IF SumSeq(relevance_scores) = 0 THEN Zero
             ELSE FDiv(PrecisionSum(relevance_scores), <<SumSeq(relevance_scores), 1>>)

----------------------------------------------------------------------------
(* RAGASMetrics: context recall                                            *)

\* any(w in word for w in ['the', 'a', 'an', 'is', 'are']) for the words of
\* the vocabulary.
HasStopSubstring(w) ==
    w \in {"is", "what", "this", "data", "semantic", "Paris", "paris", "the", "answer",
           "Unable", "unable", "relevant", "generate"}

RecallStopWords == {Wd(w) : w \in {"these", "those", "which", "where"}}

\* ragas_metrics.py:425-450: the set of key phrases; a phrase is the
\* sequence of its lowercased words.
ExtractKeyPhrases(text) ==
    LET sentences == SelectSeq(SplitSentences(text), LAMBDA sent : Len(sent) > 3)
        Windows(words) ==
          {<<words[i], words[i + 1], words[i + 2]>> : i \in 1..(Len(words) - 2)}
        phrases ==
          {[k \in 1..3 |-> Wd(LowerWord(ph[k]))] :
             ph \in {x \in UNION {Windows(sentences[n]) : n \in DOMAIN sentences} :
                       \A k \in 1..3 : ~HasStopSubstring(x[k])}}
        important_words ==
          SelectSeq(LowerText(text), LAMBDA t : TokLen(t) > 5 /\ t \notin RecallStopWords)
    IN  phrases \cup {<<t>> : t \in Range(Head_(important_words, 5))}

\* ragas_metrics.py:452-464
IsPhraseCovered(phrase, context) ==
    IF Len(phrase) = 1 THEN TermInText(phrase[1], context)
    ELSE \A k \in DOMAIN phrase : TermInText(phrase[k], context)

\* ragas_metrics.py:142-161
SingleRecall(contexts, ground_truth) ==
    IF ground_truth = <<>> THEN One
    ELSE IF contexts = <<>> THEN Zero
    ELSE LET gt_key_phrases == ExtractKeyPhrases(ground_truth)
             context_text   == LowerText(JoinContexts(contexts))
             covered == Cardinality({ph \in gt_key_phrases : IsPhraseCovered(ph, context_text)})
         IN  IF gt_key_phrases = {} THEN One
             ELSE Frac(covered, Cardinality(gt_key_phrases))

RecallScoreUnits(context_list, ground_truth) ==
    IF ground_truth = <<>> \/ context_list = <<>> THEN Zero ELSE One

\* ragas_metrics.py:301-325: the score compute_context_recall appends.
RecallScore(context_list, ground_truth) ==
    IF ground_truth = <<>> THEN One
    ELSE IF context_list = <<>> THEN Zero
    ELSE LET gt_key_phrases == ExtractKeyPhrases(ground_truth)
             context_text   == LowerText(JoinContexts(context_list))
             covered == Cardinality({ph \in gt_key_phrases : IsPhraseCovered(ph, context_text)})
         IN  IF gt_key_phrases = {} THEN One
             ELSE Frac(covered, Cardinality(gt_key_phrases))

----------------------------------------------------------------------------
(* RAGASMetrics on a test set: compute_per_question_metrics and            *)
(* compute_all_metrics                                                     *)

\* Bounds of the metric models.
MaxQuestions == 2
MaxAnswerTokens == 4
MaxFaithContexts == 2
MaxQuestionWords == 2
MaxGroundTruthWords == 2
MaxPrecContexts == 3
MaxFactWords == 2

\* All sequences over S of length 0..n.
SeqsUpTo(S, n) == UNION {[1..k -> S] : k \in 0..n}

NoCos == [raised |-> TRUE, value |-> Zero]

\* One test question with its answer and retrieved contexts, and the cosines
\* the embedding provider returns for (question, answer) and (answer,
\* ground_truth).
Case(q, a, ctx, gt, cqa, cagt) ==
    [question |-> q, answer |-> a, contexts |-> ctx, ground_truth |-> gt,
     cos_qa |-> cqa, cos_agt |-> cagt]

\* Inputs of the faithfulness model: every answer of up to MaxAnswerTokens
\* words over a short word, a key word found in the context, a key word
\* not found in it and a lone sentence mark; up to MaxFaithContexts
\* contexts, each the empty string or "data".
FaithCases ==
    {Case(<<Wd("what"), Wd("is"), Wd("data")>>, a, ctx, <<Wd("data")>>, NoCos, NoCos) :
       a   \in SeqsUpTo({Wd("is"), Wd("data"), Wd("semantic"), Stop}, MaxAnswerTokens),
       ctx \in SeqsUpTo({<<>>, <<Wd("data")>>}, MaxFaithContexts)}

\* Inputs of the context-precision model.
PrecisionCases ==
    {Case(q, <<Wd("data")>>, ctx, gt, NoCos, NoCos) :
       q   \in SeqsUpTo({Wd("chunk"), Wd("semantic")}, MaxQuestionWords),
       gt  \in SeqsUpTo({Wd("chunks"), WdEnd("Paris")}, MaxGroundTruthWords),
       ctx \in SeqsUpTo({<<Wd("chunk")>>, <<Wd("semantic"), WdEnd("paris")>>, <<Wd("is")>>},
                        MaxPrecContexts)}

\* Inputs of the test-set model: a few texts of each kind, with every
\* outcome of the embedding provider.
MetricCases ==
    {Case(q, a, ctx, gt, cqa, cagt) :
       q    \in {<<>>, <<Wd("what"), Wd("is"), Wd("Paris")>>},
       a    \in {<<>>, <<Wd("Paris"), Wd("is")>>,
                 <<Wd("semantic"), Wd("data"), Wd("is"), WdEnd("chunks")>>},
       ctx  \in {<<>>, << <<Wd("semantic"), Wd("data")>>, <<Wd("is")>> >>},
       gt   \in {<<>>, <<Wd("Paris"), Wd("semantic"), Wd("chunks"), WdEnd("42")>>},
       cqa  \in CosineOutcomes,
       cagt \in CosineOutcomes}

\* Inputs of the averaging model: every combination of an empty or
\* non-empty question, answer, context list and ground truth, with the
\* embedding call answering or raising.
AveragingCases ==
    {Case(q, a, ctx, gt, cos, cos) :
       q    \in {<<>>, <<Wd("what"), Wd("is"), Wd("Paris")>>},
       a    \in {<<>>, <<Wd("semantic"), Wd("data"), Wd("is"), WdEnd("chunks")>>},
       ctx  \in {<<>>, << <<Wd("semantic"), Wd("data")>>, <<Wd("is")>> >>},
       gt   \in {<<>>, <<Wd("Paris"), Wd("semantic"), Wd("chunks"), WdEnd("42")>>},
       cos  \in {NoCos, [raised |-> FALSE, value |-> Half]}}

NoCase == [question |-> <<>>]

NoAverage == [ragas_score |-> Zero]

MetIdle ==
    [pc |-> "idle", embedding_model |-> FALSE, n |-> 0, cur |-> NoCase,
     single |-> <<>>,
     lists |-> [faithfulness |-> <<>>, answer_relevancy |-> <<>>,
                context_precision |-> <<>>, context_recall |-> <<>>,
                answer_correctness |-> <<>>],
     averaged |-> NoAverage]

\* ragas_metrics.py:28-33 and the test set handed to the engine: whether the
\* embedding model loaded, and the number of questions.
MetInit(models, sizes) ==
    \E em \in models, n \in sizes :
        met = [MetIdle EXCEPT !.pc = "questions", !.embedding_model = em, !.n = n]

\* ragas_metrics.py:176-184: the metrics of one question.
PerQuestionMetrics(em, c) ==
    [faithfulness       |-> SingleFaithfulness(c.answer, c.contexts),
     answer_relevancy   |-> SingleRelevancy(em, c.question, c.answer, c.cos_qa),
     answer_correctness |-> SingleCorrectness(em, c.answer, c.ground_truth, c.cos_agt),
     context_precision  |-> SinglePrecision(c.question, c.contexts, c.ground_truth),
     context_recall     |-> SingleRecall(c.contexts, c.ground_truth)]

\* ragas_metrics.py:188-359: the score each compute_* loop appends for one
\* question.
AppendScores(lists, em, c) ==
    [faithfulness       |-> Append(lists.faithfulness,
                                   FaithfulnessScore(c.answer, c.contexts)),
     answer_relevancy   |-> Append(lists.answer_relevancy,
                                   RelevancyScore(em, c.question, c.answer, c.cos_qa)),
     context_precision  |-> Append(lists.context_precision,
                                   PrecisionScore(c.question, c.contexts, c.ground_truth)),
     context_recall     |-> Append(lists.context_recall,
                                   RecallScore(c.contexts, c.ground_truth)),
     answer_correctness |-> Append(lists.answer_correctness,
                                   CorrectnessScore(em, c.answer, c.ground_truth, c.cos_agt))]

\* The next question of the test set goes through both engines: iteration
\* i of compute_per_question_metrics (ragas_metrics.py:176-184) and
\* iteration i of each compute_* loop (ragas_metrics.py:197-357).
MetQuestion(cases) ==
    /\ met.pc = "questions"
    /\ Len(met.single) < met.n
    /\ \E c \in cases :
         met' = [met EXCEPT
                   !.cur = c,
                   !.single = Append(met.single, PerQuestionMetrics(met.embedding_model, c)),
                   !.lists = AppendScores(met.lists, met.embedding_model, c)]
    /\ UNCHANGED <<sem, nv, ev, an, srv, tg, ch>>

\* ragas_metrics.py:52-63 with the return of each compute_* function
\* (np.mean(scores) if scores else 0.0) and the aggregate ragas_score.
MetAverage ==
    /\ met.pc = "questions"
    /\ Len(met.single) = met.n
    /\ LET m == [faithfulness       |-> MeanOrZero(met.lists.faithfulness),
                 answer_relevancy   |-> MeanOrZero(met.lists.answer_relevancy),
                 context_precision  |-> MeanOrZero(met.lists.context_precision),
                 context_recall     |-> MeanOrZero(met.lists.context_recall),
                 answer_correctness |-> MeanOrZero(met.lists.answer_correctness)]
       IN  met' = [met EXCEPT
                     !.pc = "done",
                     !.averaged =
                        [faithfulness       |-> m.faithfulness,
                         answer_relevancy   |-> m.answer_relevancy,
                         context_precision  |-> m.context_precision,
                         context_recall     |-> m.context_recall,
                         answer_correctness |-> m.answer_correctness,
                         ragas_score |-> MeanOrZero(<<m.faithfulness, m.answer_relevancy,
                                                      m.context_precision, m.context_recall,
                                                      m.answer_correctness>>)]]
    /\ UNCHANGED <<sem, nv, ev, an, srv, tg, ch>>


----------------------------------------------------------------------------
(* RAGASEvaluator: the metrics it reports (evaluation.py)                  *)

\* set(text.lower().split())
WordSet(text) == Range(LowerText(text))

\* min(overlap / len(words), 1.0)
OverlapRatio(overlap, size) == FMin(Frac(overlap, size), One)

\* evaluation.py:316-329
CalculateFaithfulness(answer, contexts) ==
    IF contexts = <<>> \/ answer = <<>> THEN Zero
    ELSE LET answer_words  == WordSet(answer)
             context_words == WordSet(JoinContexts(contexts))
         IN  IF answer_words = {} THEN Zero
             ELSE OverlapRatio(Cardinality(answer_words \cap context_words),
                               Cardinality(answer_words))

\* evaluation.py:331-350; sim is the provider's question/answer similarity.
CalculateAnswerRelevancy(embedding_model, question, answer, sim) ==
    IF ~embedding_model
    THEN LET question_words == WordSet(question)
             answer_words   == WordSet(answer)
         IN  IF question_words = {} THEN Zero
             ELSE OverlapRatio(Cardinality(question_words \cap answer_words),
                               Cardinality(question_words))
    ELSE IF sim.raised THEN Half
    ELSE IF FLe(sim.value, Zero) THEN Zero ELSE sim.value

\* evaluation.py:404-419
IsContextRelevant(question, context, ground_truth) ==
    LET context_lower == LowerText(context)
        key_terms == SelectSeq(LowerText(question) \o LowerText(ground_truth),
                               LAMBDA w : TokLen(w) > 4)
        relevant_terms == Len(SelectSeq(key_terms,
                                        LAMBDA term : TermInText(term, context_lower)))
        third == Len(key_terms) \div 3
    IN  relevant_terms >= (IF third > 1 THEN third ELSE 1)

\* evaluation.py:352-363
CalculateContextPrecision(question, contexts, ground_truth) ==
    IF contexts = <<>> THEN Zero
    ELSE Frac(Len(SelectSeq(contexts,
                            LAMBDA context : IsContextRelevant(question, context, ground_truth))),
              Len(contexts))

\* evaluation.py:365-382
CalculateContextRecall(contexts, ground_truth) ==
    IF contexts = <<>> \/ ground_truth = <<>> THEN Zero
    ELSE LET context_text == LowerText(JoinContexts(contexts))
             ground_truth_words == WordSet(ground_truth)
             covered_words == Cardinality({word \in ground_truth_words :
                                             TokLen(word) > 3 /\ TermInText(word, context_text)})
         IN  IF ground_truth_words = {} THEN Zero
             ELSE Frac(covered_words, Cardinality(ground_truth_words))

\* evaluation.py:384-402; sim is the provider's answer/ground-truth
\* similarity.
CalculateAnswerCorrectness(embedding_model, answer, ground_truth, sim) ==
    IF ~embedding_model
    THEN LET answer_words == WordSet(answer)
             truth_words  == WordSet(ground_truth)
         IN  IF truth_words = {} THEN Zero
             ELSE OverlapRatio(Cardinality(answer_words \cap truth_words),
                               Cardinality(truth_words))
    ELSE IF sim.raised THEN Half
    ELSE IF FLe(sim.value, Zero) THEN Zero ELSE sim.value

\* evaluation.py:303-322: the scores the built-in implementation appends for
\* one question.
AppendFallbackScores(lists, em, c) ==
    [faithfulness       |-> Append(lists.faithfulness,
                                   CalculateFaithfulness(c.answer, c.contexts)),
     answer_relevancy   |-> Append(lists.answer_relevancy,
                                   CalculateAnswerRelevancy(em, c.question, c.answer, c.cos_qa)),
     context_precision  |-> Append(lists.context_precision,
                                   CalculateContextPrecision(c.question, c.contexts,
                                                             c.ground_truth)),
     context_recall     |-> Append(lists.context_recall,
                                   CalculateContextRecall(c.contexts, c.ground_truth)),
     answer_correctness |-> Append(lists.answer_correctness,
                                   CalculateAnswerCorrectness(em, c.answer, c.ground_truth,
                                                              c.cos_agt))]

\* Test questions for the reported context recall: empty and non-empty
\* context lists and ground truths, covered and not.
RecallCases ==
    {Case(<<Wd("what"), Wd("is"), Wd("semantic")>>, <<Wd("semantic"), Wd("chunks")>>,
          ctx, gt, NoCos, NoCos) :
       ctx \in {<<>>, << <<Wd("semantic"), Wd("chunks")>> >>, << <<>>, <<Wd("data")>> >>},
       gt  \in {<<>>, <<Wd("semantic")>>, <<Wd("semantic"), WdEnd("chunks")>>, <<Wd("is")>>}}

EvIdle == [pc |-> "idle"]

\* evaluation.py:48-76, 256-262: whether the RAGASMetrics engine and the
\* embedding model are available, and the rag_results of n questions.
EvMetricsInit ==
    \E rm \in BOOLEAN, em \in BOOLEAN, n \in 1..MaxQuestions :
        ev = [pc |-> "metrics", ragas_metrics |-> rm, embedding_model |-> em, n |-> n,
              cur |-> NoCase, lists |-> MetIdle.lists, ragas |-> NoAverage]

\* One question of rag_results: iteration i of the engine's compute_* loops
\* (evaluation.py:281-286) or of the built-in loop (evaluation.py:303-322).
EvMetricsQuestion(cases) ==
    /\ ev.pc = "metrics"
    /\ Len(ev.lists.context_recall) < ev.n
    /\ \E c \in cases :
         ev' = [ev EXCEPT
                  !.cur = c,
                  !.lists = IF ev.ragas_metrics
                            THEN AppendScores(ev.lists, ev.embedding_model, c)
                            ELSE AppendFallbackScores(ev.lists, ev.embedding_model, c)]
    /\ UNCHANGED <<sem, nv, met, an, srv, tg, ch>>

\* evaluation.py:287-290 (the engine's means without ragas_score) and
\* evaluation.py:324-330 (np.mean of each list).
EvMetricsReturn ==
    /\ ev.pc = "metrics"
    /\ Len(ev.lists.context_recall) = ev.n
    /\ ev' = [ev EXCEPT
                !.pc = "done",
                !.ragas = [m \in DOMAIN ev.lists |-> MeanOrZero(ev.lists[m])]]
    /\ UNCHANGED <<sem, nv, met, an, srv, tg, ch>>

----------------------------------------------------------------------------
(* RAGASEvaluator._retrieve_relevant_chunks (evaluation.py:154-177)        *)

\* Bounds of the retrieval model.
MaxChunks == 3
MaxTopK == 3
MaxSimilarity == 2

\* s[::-1]
Reverse(s) == [k \in 1..Len(s) |-> s[Len(s) + 1 - k]]

\* s[-k:] for k >= 0; s[-0:] is the whole sequence.
LastK(s, k) ==
    IF k = 0 \/ k >= Len(s) THEN s ELSE SubSeq(s, Len(s) - k + 1, Len(s))

\* np.dot(question_embedding, chunk_embeddings.T)[0] for n chunks: one
\* similarity per chunk, as a small integer.
SimilarityChoices(n) == [1..n -> 1..MaxSimilarity]

\* np.argsort(similarities): the positions in ascending order of similarity.
\* The default sort kind is not stable, so equal similarities come in any
\* order.  Positions are 1-based here, 0-based in the code.
ArgSorts(similarities) ==
    LET n == Len(similarities)
    IN  {p \in [1..n -> 1..n] :
           /\ \A j, k \in 1..n : j # k => p[j] # p[k]
           /\ \A j, k \in 1..n : j < k => similarities[p[j]] <= similarities[p[k]]}

\* The outcomes of the embedding calls of evaluation.py:163-170: an
\* exception, or the similarities and their argsort.
EncodeOutcomes(n) ==
    {[raised |-> TRUE, similarities |-> <<>>, order |-> <<>>]}
      \cup UNION {{[raised |-> FALSE, similarities |-> s, order |-> p] : p \in ArgSorts(s)} :
                    s \in SimilarityChoices(n)}

\* Texts of the retrieval model.
ChunkChoices == {<<Wd("data")>>, <<Wd("semantic"), Wd("chunks")>>, <<Wd("chunks")>>}

RetrievalQuestions == {<<Wd("semantic"), Wd("chunks")>>, <<Wd("what"), Wd("is"), Wd("data")>>}

EvRetrieveInit ==
    \E em \in BOOLEAN, q \in RetrievalQuestions,
       cs \in SeqsUpTo(ChunkChoices, MaxChunks), k \in 0..MaxTopK :
        ev = [pc |-> "retrieve", embedding_model |-> em, question |-> q, chunks |-> cs,
              top_k |-> k, embedded |-> FALSE, similarities |-> <<>>,
              top_indices |-> <<>>, relevant_chunks |-> <<>>]

\* evaluation.py:154-177
EvRetrieve ==
    /\ ev.pc = "retrieve"
    /\ IF ~ev.embedding_model \/ ev.chunks = <<>>
       THEN ev' = [ev EXCEPT !.pc = "done",
                             !.relevant_chunks = Head_(ev.chunks, ev.top_k)]
       ELSE \E o \in EncodeOutcomes(Len(ev.chunks)) :
              IF o.raised
              THEN ev' = [ev EXCEPT !.pc = "done",
                                    !.relevant_chunks = Head_(ev.chunks, ev.top_k)]
              ELSE LET top_indices == Reverse(LastK(o.order, ev.top_k))
                       kept == SelectSeq(top_indices, LAMBDA i : i <= Len(ev.chunks))
                   IN  ev' = [ev EXCEPT
                                !.pc = "done",
                                !.embedded = TRUE,
                                !.similarities = o.similarities,
                                !.top_indices = top_indices,
                                !.relevant_chunks = [j \in 1..Len(kept) |-> ev.chunks[kept[j]]]]
    /\ UNCHANGED <<sem, nv, met, an, srv, tg, ch>>

----------------------------------------------------------------------------
(* RAGASEvaluator._simulate_answer_generation (evaluation.py:205-254)      *)

\* Bound of the answer model: the number of '.'-separated pieces of a
\* context.
MaxContextPieces == 4

NoContextMessage == "No relevant context found to answer this question."

UnableMessage == "Unable to generate answer from the provided context."

\* An answer: a fixed message, or context sentences joined by ". ".  A
\* sentence is the sequence of its words, written with single spaces.
MessageAnswer(m) == [message |-> m, sentences |-> <<>>]

SentenceAnswer(sentences) == [message |-> "", sentences |-> sentences]

\* evaluation.py:212-216: the stripped, non-empty pieces of the joined
\* context between '.' marks, in order.
ContextSentences(contexts) ==
    SelectSeq(SplitSentences(JoinContexts(contexts)), LAMBDA s : s # <<>>)

AnswerStopWords ==
    {Wd(w) : w \in {"what", "which", "where", "when", "how", "does", "this", "that", "the"}}

\* evaluation.py:219
QuestionWords(question) ==
    {LowerTok(w) : w \in {x \in Range(question) :
                            TokLen(x) > 3 /\ LowerTok(x) \notin AnswerStopWords}}

\* evaluation.py:223-225: the number of question words found in the
\* lowercased sentence.
RelevanceScore(question_words, sentence) ==
    LET sentence_lower == [k \in DOMAIN sentence |-> Wd(LowerWord(sentence[k]))]
    IN  Cardinality({word \in question_words : TermInText(word, sentence_lower)})

\* evaluation.py:221-227: (relevance_score, sentence) of the sentences that
\* score above 0, in context order.
RelevantSentences(question_words, context_sentences) ==
    SelectSeq([k \in DOMAIN context_sentences |->
                 <<RelevanceScore(question_words, context_sentences[k]), context_sentences[k]>>],
              LAMBDA x : x[1] > 0)

SortByRelevanceAscending(relevant_sentences, max_score) ==
    LET RECURSIVE From(_)
        From(s) == IF s > max_score THEN <<>>
                   ELSE SelectSeq(relevant_sentences, LAMBDA x : x[1] = s) \o From(s + 1)
    IN  From(1)

\* evaluation.py:230: list.sort(key=score, reverse=True), a stable sort:
\* the highest score first, equal scores in their original order.
SortByRelevance(relevant_sentences, max_score) ==
    LET RECURSIVE From(_)
        From(s) == IF s < 1 THEN <<>>
                   ELSE SelectSeq(relevant_sentences, LAMBDA x : x[1] = s) \o From(s - 1)
    IN  From(max_score)

\* len(sentence)
SentenceLength(sentence) ==
    SumSeq([k \in DOMAIN sentence |-> WordLen(sentence[k])]) + (Len(sentence) - 1)

\* len(". ".join(sentences)); the join holds no ".." and no outer blanks, so
\* replace("..", ".") and strip() (evaluation.py:241-242) leave it as it is.
JoinedLength(sentences) ==
    SumSeq([k \in DOMAIN sentences |-> SentenceLength(sentences[k])])
      + 2 * (Len(sentences) - 1)

\* evaluation.py:235-248
ExtractiveAnswer(relevant_sentences) ==
    LET answer_sentences == [k \in 1..Min(3, Len(relevant_sentences)) |->
                               relevant_sentences[k][2]]
    IN  IF JoinedLength(answer_sentences) < 50 /\ Len(relevant_sentences) > 3
        THEN SentenceAnswer(Append(answer_sentences, relevant_sentences[4][2]))
        ELSE SentenceAnswer(answer_sentences)

NoSentenceAnswerEmpty(context_sentences) == SentenceAnswer(<<>>)

\* evaluation.py:250-254
NoSentenceAnswer(context_sentences) ==
    IF context_sentences # <<>> THEN SentenceAnswer(<<context_sentences[1]>>)
    ELSE MessageAnswer(UnableMessage)

\* evaluation.py:205-254
SimulateAnswerGeneration(question, contexts) ==
    IF contexts = <<>> THEN MessageAnswer(NoContextMessage)
    ELSE LET context_sentences  == ContextSentences(contexts)
             question_words     == QuestionWords(question)
             relevant_sentences ==
                 SortByRelevance(RelevantSentences(question_words, context_sentences),
                                 Cardinality(question_words))
         IN  IF relevant_sentences # <<>> THEN ExtractiveAnswer(relevant_sentences)
             ELSE NoSentenceAnswer(context_sentences)

\* The '.'-terminated pieces the contexts of the model are made of: a lone
\* mark and sentences of 6 to 26 characters.
PieceChoices ==
    {<<Stop>>,
     <<Wd("semantic"), Wd("chunks"), WdEnd("data")>>,
     <<WdEnd("semantic")>>,
     <<WdEnd("chunks")>>,
     <<Wd("data"), WdEnd("is")>>,
     <<Wd("Paris"), Wd("semantic"), Wd("data"), WdEnd("chunks")>>}

\* Context lists: none, one empty context, one context of up to
\* MaxContextPieces pieces, and a sentence that runs over two contexts.
AnswerContexts ==
    {<<>>, << <<>> >>, << <<Wd("semantic")>>, <<Wd("chunks"), WdEnd("data"), Wd("is")>> >>}
      \cup {<<JoinContexts(ps)>> : ps \in SeqsUpTo(PieceChoices, MaxContextPieces) \ {<<>>}}

AnswerQuestions ==
    {<<Wd("what"), Wd("semantic"), Wd("chunks")>>,
     <<Wd("what"), Wd("is"), Wd("data")>>,
     <<Wd("what"), Wd("is"), Wd("this")>>,
     <<Wd("Paris"), WdEnd("chunk")>>}

EvAnswerInit ==
    \E q \in AnswerQuestions, ctx \in AnswerContexts :
        ev = [pc |-> "answer", question |-> q, contexts |-> ctx,
              answer |-> SentenceAnswer(<<>>)]

EvAnswer ==
    /\ ev.pc = "answer"
    /\ ev' = [ev EXCEPT !.pc = "done",
                        !.answer = SimulateAnswerGeneration(ev.question, ev.contexts)]
    /\ UNCHANGED <<sem, nv, met, an, srv, tg, ch>>

----------------------------------------------------------------------------
(* StatisticalAnalyzer (analysis.py)                                       *)

FSub(a, b) == Frac(a[1] * b[2] - b[1] * a[2], a[2] * b[2])

FLt(a, b) == a[1] * b[2] < b[1] * a[2]

Hundred == <<100, 1>>

\* The keys of an evaluation's 'ragas' scores, in insertion order
\* (evaluation.py:324-330, ragas_metrics.py:52-58).
MetricOrder ==
    <<"faithfulness", "answer_relevancy", "context_precision", "context_recall",
      "answer_correctness">>

\* (naive score, semantic score) of one metric; binary fractions, whose
\* improvements (0, 100, 25, -25) are exact as floats.
ScorePairs ==
    {<<Zero, Zero>>, <<Zero, One>>, <<Half, Frac(5, 8)>>, <<Half, Frac(3, 8)>>,
     <<Half, Half>>}

ImprovementZeroNaiveAlways100(naive_score, semantic_score) ==
    IF naive_score = Zero THEN Hundred
    ELSE FMul(FDiv(FSub(semantic_score, naive_score), naive_score), Hundred)

\* analysis.py:70-73
Improvement(naive_score, semantic_score) ==
    IF naive_score = Zero
    THEN (IF FLt(Zero, semantic_score) THEN Hundred ELSE Zero)
    ELSE FMul(FDiv(FSub(semantic_score, naive_score), naive_score), Hundred)

\* sum(values) / len(values) if values else 0
OverallImprovement(values) ==
    MeanOrZero(values)

SignificantMetricsAnyImprovement(improvements, significant) ==
    LET idx == SelectSeq([k \in 1..Len(MetricOrder) |-> k], LAMBDA k : significant[k])
    IN  [j \in 1..Len(idx) |-> MetricOrder[idx[j]]]

\* analysis.py:235-238: the metrics whose test is significant and whose
\* improvement is positive, in order.
SignificantMetrics(improvements, significant) ==
    LET idx == SelectSeq([k \in 1..Len(MetricOrder) |-> k],
                         LAMBDA k : significant[k] /\ FLt(Zero, improvements[k]))
    IN  [j \in 1..Len(idx) |-> MetricOrder[idx[j]]]

RecommendationIgnoresCount(overall_improvement, significant_metrics) ==
    IF FLt(<<10, 1>>, overall_improvement) THEN "Strong recommendation"
    ELSE IF FLt(<<5, 1>>, overall_improvement) THEN "Moderate recommendation"
    ELSE IF FLt(Zero, overall_improvement) THEN "Weak recommendation"
    ELSE IF FLt(<<-5, 1>>, overall_improvement) THEN "Neutral"
    ELSE "Not recommended"

\* analysis.py:266-284: the returned text, by its leading words.
Recommendation(overall_improvement, significant_metrics) ==
    IF FLt(<<10, 1>>, overall_improvement) /\ Len(significant_metrics) >= 3
    THEN "Strong recommendation"
    ELSE IF FLt(<<5, 1>>, overall_improvement) /\ Len(significant_metrics) >= 2
    THEN "Moderate recommendation"
    ELSE IF FLt(Zero, overall_improvement) /\ Len(significant_metrics) >= 1
    THEN "Weak recommendation"
    ELSE IF FLt(<<-5, 1>>, overall_improvement) THEN "Neutral"
    ELSE "Not recommended"

ConfidenceLevelStrict(significant) ==
    LET significant_count == Len(SelectSeq(significant, LAMBDA b : b))
        total_tests       == Len(significant)
    IN  IF total_tests = 0 THEN "No data"
        ELSE IF 10 * significant_count > 8 * total_tests THEN "Very High"
        ELSE IF 10 * significant_count > 6 * total_tests THEN "High"
        ELSE IF 10 * significant_count > 4 * total_tests THEN "Moderate"
        ELSE IF 10 * significant_count > 2 * total_tests THEN "Low"
        ELSE "Very Low"

\* analysis.py:286-306
ConfidenceLevel(significant) ==
    LET significant_count == Len(SelectSeq(significant, LAMBDA b : b))
        total_tests       == Len(significant)
    IN  IF total_tests = 0 THEN "No data"
        ELSE IF 10 * significant_count >= 8 * total_tests THEN "Very High"
        ELSE IF 10 * significant_count >= 6 * total_tests THEN "High"
        ELSE IF 10 * significant_count >= 4 * total_tests THEN "Moderate"
        ELSE IF 10 * significant_count >= 2 * total_tests THEN "Low"
        ELSE "Very Low"

\* max(items, key=value) / min(items, key=value): the first metric, in
\* order, with the largest / smallest improvement.
BestMetric(improvements) ==
    LET k == CHOOSE i \in DOMAIN improvements :
                /\ \A j \in DOMAIN improvements : FLe(improvements[j], improvements[i])
                /\ \A j \in 1..(i - 1) : FLt(improvements[j], improvements[i])
    IN  [metric |-> MetricOrder[k], improvement |-> improvements[k]]

WorstMetric(improvements) ==
    LET k == CHOOSE i \in DOMAIN improvements :
                /\ \A j \in DOMAIN improvements : FLe(improvements[i], improvements[j])
                /\ \A j \in 1..(i - 1) : FLt(improvements[i], improvements[j])
    IN  [metric |-> MetricOrder[k], improvement |-> improvements[k]]

NoSummary == [recommendation |-> ""]

AnIdle ==
    [pc |-> "idle", naive |-> <<>>, semantic |-> <<>>, ragas_improvements |-> <<>>,
     significant |-> <<>>, summary |-> NoSummary]

\* analysis.py:25-29: analyze_comparison is handed the two evaluations; the
\* scores of each metric are read when its iteration comes.
AnInit == an = [AnIdle EXCEPT !.pc = "metrics"]

\* One metric through analyze_comparison: its iteration of the improvement
\* loop (analysis.py:66-75) and of the significance loop
\* (analysis.py:130-147), whose pseudo-samples (analysis.py:151-165) make
\* the test's outcome any boolean.
AnMetric ==
    /\ an.pc = "metrics"
    /\ Len(an.ragas_improvements) < Len(MetricOrder)
    /\ \E pair \in ScorePairs, significant \in BOOLEAN :
         an' = [an EXCEPT
                  !.naive = Append(an.naive, pair[1]),
                  !.semantic = Append(an.semantic, pair[2]),
                  !.ragas_improvements =
                      Append(an.ragas_improvements, Improvement(pair[1], pair[2])),
                  !.significant = Append(an.significant, significant)]
    /\ UNCHANGED <<sem, nv, met, ev, srv, tg, ch>>

\* analysis.py:225-264
AnSummary ==
    /\ an.pc = "metrics"
    /\ Len(an.ragas_improvements) = Len(MetricOrder)
    /\ LET overall_ragas_improvement == OverallImprovement(an.ragas_improvements)
           significant_metrics == SignificantMetrics(an.ragas_improvements, an.significant)
       IN  an' = [an EXCEPT
                    !.pc = "done",
                    !.summary =
                       [overall_improvement |-> overall_ragas_improvement,
                        significant_metrics |-> significant_metrics,
                        significant_count   |-> Len(significant_metrics),
                        total_metrics       |-> Len(an.ragas_improvements),
                        best_improvement    |-> BestMetric(an.ragas_improvements),
                        worst_improvement   |-> WorstMetric(an.ragas_improvements),
                        recommendation      |-> Recommendation(overall_ragas_improvement,
                                                               significant_metrics),
                        confidence_level    |-> ConfidenceLevel(an.significant)]]
    /\ UNCHANGED <<sem, nv, met, ev, srv, tg, ch>>

----------------------------------------------------------------------------
(* RAGASEvaluator.evaluate_strategy (evaluation.py:78-152, 179-203,        *)
(* 420-491)                                                                *)

\* The words of a fixed message.
MessageText(m) ==
    IF m = NoContextMessage
    THEN <<Wd("No"), Wd("relevant"), Wd("context"), Wd("found"), Wd("to"), Wd("answer"),
           Wd("this"), WdEnd("question")>>
    ELSE <<Wd("Unable"), Wd("to"), Wd("generate"), Wd("answer"), Wd("from"), Wd("the"),
           Wd("provided"), WdEnd("context")>>

\* The string of an answer: the message, or ". ".join(sentences), where
\* every sentence but the last ends in the mark the join puts after it.
AnswerText(answer) ==
    LET RECURSIVE J(_)
        J(ss) == IF ss = <<>> THEN <<>>
                 ELSE LET words == ss[1]
                          marked == [k \in DOMAIN words |->
                                       IF k = Len(words) /\ Len(ss) > 1 THEN WdEnd(words[k])
                                       ELSE Wd(words[k])]
                      IN  marked \o J(Tail(ss))
    IN  IF answer.message # "" THEN MessageText(answer.message) ELSE J(answer.sentences)

\* len(text)
TextLength(text) ==
    IF text = <<>> THEN 0
    ELSE SumSeq([k \in DOMAIN text |-> TokLen(text[k])]) + (Len(text) - 1)

\* evaluation.py:154-177 for one outcome o of the embedding calls.
RelevantChunks(embedding_model, chunks, top_k, o) ==
    IF ~embedding_model \/ chunks = <<>> \/ o.raised THEN Head_(chunks, top_k)
    ELSE LET top_indices == Reverse(LastK(o.order, top_k))
             kept == SelectSeq(top_indices, LAMBDA i : i <= Len(chunks))
         IN  [j \in 1..Len(kept) |-> chunks[kept[j]]]

\* The outcomes of the hosted generation call of evaluation.py:187-197: an
\* exception, or the stripped content of the first choice.
HostedAnswers == {<<>>, <<Wd("semantic"), WdEnd("data")>>}

GenerationOutcomes ==
    {[raised |-> TRUE, content |-> <<>>]}
      \cup {[raised |-> FALSE, content |-> a] : a \in HostedAnswers}

NoGeneration == [raised |-> TRUE, content |-> <<>>]

GenerateAnswerNoFallback(openai_client, g, question, contexts) ==
    IF openai_client /\ ~g.raised THEN g.content ELSE <<>>

\* evaluation.py:179-203
GenerateAnswer(openai_client, g, question, contexts) ==
    IF openai_client /\ ~g.raised THEN g.content
    ELSE AnswerText(SimulateAnswerGeneration(question, contexts))

\* np.std(values), kept as the variance whose square root it is.
StdOf(values) ==
    LET mean == MeanOrZero(values)
    IN  [sqrt |-> MeanOrZero([k \in DOMAIN values |->
                                FMul(FSub(values[k], mean), FSub(values[k], mean))])]

\* evaluation.py:480-483: the stripped, non-empty pieces of a chunk between
\* sentence marks.
ChunkSentences(chunk) == SelectSeq(SplitSentences(chunk), LAMBDA s : s # <<>>)

\* The outcomes of _calculate_intra_chunk_coherence (evaluation.py:485-503)
\* for a chunk of several sentences: the mean pairwise dot product, or 0.5
\* when the embedding call raises.
CoherenceChoices == CosineChoices \cup {Half}

\* evaluation.py:420-478; coherence[k] is the embedding outcome for chunk k.
ChunkingQuality(embedding_model, chunks, coherence) ==
    IF chunks = <<>>
    THEN [chunk_count |-> 0, avg_length |-> Zero, length_std |-> [sqrt |-> Zero],
          avg_coherence |-> Zero, coherence_std |-> [sqrt |-> Zero],
          coverage_ratio |-> Zero]
    ELSE LET chunk_lengths == [k \in DOMAIN chunks |-> <<TextLength(chunks[k]), 1>>]
             several == SelectSeq([k \in DOMAIN chunks |-> k],
                                  LAMBDA k : Len(ChunkSentences(chunks[k])) > 1)
             embedded == IF embedding_model
                         THEN [j \in DOMAIN several |-> coherence[several[j]]]
                         ELSE <<>>
             coherence_scores ==
                 IF embedded # <<>> THEN embedded
                 ELSE [k \in DOMAIN chunks |->
                         FMin(One, Frac(500, IF TextLength(chunks[k]) > 1
                                             THEN TextLength(chunks[k]) ELSE 1))]
         IN  [chunk_count |-> Len(chunks), avg_length |-> MeanOrZero(chunk_lengths),
              length_std |-> StdOf(chunk_lengths),
              avg_coherence |-> MeanOrZero(coherence_scores),
              coherence_std |-> StdOf(coherence_scores),
              coverage_ratio |-> One]

\* evaluation.py:505-509: (total_chars * 1.5) / (1024 * 1024)
MemoryUsage(chunks) ==
    Frac(3 * SumSeq([k \in DOMAIN chunks |-> TextLength(chunks[k])]), 2 * 1024 * 1024)

\* Chunk lists handed to evaluate_strategy: none, one empty chunk, one chunk
\* of two sentences, and two chunks.
StrategyChunkLists ==
    {<<>>, << <<>> >>,
     << <<Wd("semantic"), Wd("chunks"), WdEnd("data"), Wd("data"), WdEnd("is")>> >>,
     << <<Wd("Paris"), WdEnd("data")>>,
        <<Wd("semantic"), Wd("chunks"), WdEnd("data"), Wd("data"), WdEnd("is")>> >>}

\* The items a test dataset is made of.
StrategyItems ==
    {[question |-> <<Wd("what"), Wd("is"), Wd("data")>>,
      ground_truth |-> <<Wd("data"), Wd("is"), WdEnd("semantic")>>],
     [question |-> <<Wd("what"), Wd("semantic"), Wd("chunks")>>,
      ground_truth |-> <<Wd("Paris"), Wd("semantic"), Wd("chunks"), WdEnd("42")>>]}

\* The sizes of the test datasets handed to evaluate_strategy.
StrategySizes == {1, 2}

NoResult == [strategy |-> ""]

\* evaluation.py:49-76: the evaluator after __init__ (an exception leaves it
\* without embedding model, client and engine), and the arguments of
\* evaluate_strategy; the items of the test dataset are read when their
\* iteration comes.
EvStrategyInit ==
    \E init \in {<<TRUE, TRUE, TRUE>>, <<TRUE, TRUE, FALSE>>, <<TRUE, FALSE, TRUE>>,
                 <<TRUE, FALSE, FALSE>>, <<FALSE, FALSE, FALSE>>},
       cs \in StrategyChunkLists, n \in StrategySizes :
        ev = [pc |-> "stats", embedding_model |-> init[1], openai_client |-> init[2],
              ragas_metrics |-> init[3], chunks |-> cs, n |-> n, error |-> "",
              test_dataset |-> <<>>, contexts |-> <<>>, answers |-> <<>>,
              generation |-> <<>>, lists |-> MetIdle.lists, per_question |-> <<>>,
              result |-> NoResult]

\* evaluation.py:83-89: the logged statistics; min() of no chunk lengths
\* raises ValueError, which evaluate_strategy does not catch.
EvStrategyStats ==
    /\ ev.pc = "stats"
    /\ IF ev.chunks = <<>>
       THEN ev' = [ev EXCEPT !.pc = "raised", !.error = "ValueError"]
       ELSE ev' = [ev EXCEPT !.pc = "pipeline"]
    /\ UNCHANGED <<sem, nv, met, an, srv, tg, ch>>

\* evaluation.py:138-145: one question through retrieval (top_k = 3) and
\* answer generation.
EvStrategyQuestion ==
    /\ ev.pc = "pipeline"
    /\ Len(ev.answers) < ev.n
    /\ \E item \in StrategyItems, o \in EncodeOutcomes(Len(ev.chunks)),
          g \in GenerationOutcomes :
         /\ ev.embedding_model \/ o.raised
         /\ ev.openai_client \/ g = NoGeneration
         /\ LET relevant_chunks == RelevantChunks(ev.embedding_model, ev.chunks, 3, o)
                answer == GenerateAnswer(ev.openai_client, g, item.question, relevant_chunks)
            IN  ev' = [ev EXCEPT
                         !.test_dataset = Append(ev.test_dataset, item),
                         !.contexts = Append(ev.contexts, relevant_chunks),
                         !.generation = Append(ev.generation, g),
                         !.answers = Append(ev.answers, answer)]
    /\ UNCHANGED <<sem, nv, met, an, srv, tg, ch>>

\* evaluation.py:147-152
EvStrategyPipelineReturn ==
    /\ ev.pc = "pipeline"
    /\ Len(ev.answers) = ev.n
    /\ ev' = [ev EXCEPT !.pc = "metrics"]
    /\ UNCHANGED <<sem, nv, met, an, srv, tg, ch>>

\* One question of rag_results through _calculate_ragas_metrics
\* (evaluation.py:256-330) and compute_per_question_metrics
\* (evaluation.py:104-114); the embedding model gives the same outcome for
\* the same pair of texts in both.
EvStrategyScore ==
    /\ ev.pc = "metrics"
    /\ Len(ev.lists.faithfulness) < ev.n
    /\ \E cqa \in CosineOutcomes, cagt \in CosineOutcomes :
         /\ ev.embedding_model \/ (cqa = NoCos /\ cagt = NoCos)
         /\ LET i == Len(ev.lists.faithfulness) + 1
                c == Case(ev.test_dataset[i].question, ev.answers[i], ev.contexts[i],
                          ev.test_dataset[i].ground_truth, cqa, cagt)
            IN  ev' = [ev EXCEPT
                         !.lists = IF ev.ragas_metrics
                                   THEN AppendScores(ev.lists, ev.embedding_model, c)
                                   ELSE AppendFallbackScores(ev.lists, ev.embedding_model, c),
                         !.per_question =
                             IF ev.ragas_metrics
                             THEN Append(ev.per_question,
                                         PerQuestionMetrics(ev.embedding_model, c))
                             ELSE <<>>]
    /\ UNCHANGED <<sem, nv, met, an, srv, tg, ch>>

\* evaluation.py:97-127: the chunking quality and the returned result (its
\* clock readings left out).
EvStrategyReturn ==
    /\ ev.pc = "metrics"
    /\ Len(ev.lists.faithfulness) = ev.n
    /\ \E coherence \in [DOMAIN ev.chunks -> CoherenceChoices] :
         ev' = [ev EXCEPT
                  !.pc = "done",
                  !.result =
                     [ragas |-> [m \in DOMAIN ev.lists |-> MeanOrZero(ev.lists[m])],
                      chunking_quality |->
                          ChunkingQuality(ev.embedding_model, ev.chunks, coherence),
                      memory_usage |-> MemoryUsage(ev.chunks),
                      chunks |-> ev.chunks,
                      rag_details |->
                          [questions |-> [k \in DOMAIN ev.test_dataset |->
                                            ev.test_dataset[k].question],
                           answers |-> ev.answers,
                           contexts |-> ev.contexts,
                           ground_truths |-> [k \in DOMAIN ev.test_dataset |->
                                                ev.test_dataset[k].ground_truth]],
                      per_question_metrics |-> ev.per_question]]
    /\ UNCHANGED <<sem, nv, met, an, srv, tg, ch>>

----------------------------------------------------------------------------
(* The evaluation request handler (evaluation.py:493-659) and the process  *)
(* environment its requests share                                          *)

\* Bounds of the handler model: the requests one process serves and the
\* custom questions a request carries.
MaxRequests == 2
MaxCustomQuestions == 5

\* API keys; "" stands for no key (None, or an absent header or variable).
ApiKeys == {"k1", "k2"}

NoRequest == [api_key |-> "", custom_questions |-> 0, document |-> FALSE,
              empty_chunks |-> FALSE]

NoEvaluator == [embedding_model |-> FALSE, openai_client |-> "", ragas_metrics |-> FALSE]

NoDataset == [source |-> "", size |-> 0]

NoResponse == [status |-> 0]

SrvIdle ==
    [pc |-> "off", configured |-> "", environ |-> "", served |-> 0, request |-> NoRequest,
     evaluator |-> NoEvaluator, test_dataset |-> NoDataset, response |-> NoResponse]

\* The process starts with or without OPENAI_API_KEY in its environment.
SrvInit ==
    \E key \in {""} \cup {"k0"} :
        srv = [SrvIdle EXCEPT !.pc = "idle", !.configured = key, !.environ = key]

\* evaluation.py:566-574, 597-617: a request arrives, with or without an
\* x-api-key header, with 0..MaxCustomQuestions custom questions, with or
\* without document content, and with or without an empty chunk set among
\* its results.
HandlerReceive ==
    /\ srv.pc = "idle"
    /\ srv.served < MaxRequests
    /\ \E key \in {""} \cup ApiKeys, n \in 0..MaxCustomQuestions, doc \in BOOLEAN,
          empty \in BOOLEAN :
         srv' = [srv EXCEPT
                   !.pc = "init",
                   !.request = [api_key |-> key, custom_questions |-> n, document |-> doc,
                                empty_chunks |-> empty],
                   !.evaluator = NoEvaluator,
                   !.test_dataset = NoDataset,
                   !.response = NoResponse]
    /\ UNCHANGED <<sem, nv, met, ev, an, tg, ch>>

\* evaluation.py:52-62: the key the OpenAI client is built with; "" for no
\* client.
OpenAIClient(api_key, environ) ==
    IF api_key # "" THEN api_key ELSE environ

\* evaluation.py:576-582, 49-76: the handler writes the request's key into
\* os.environ and builds the evaluator; loaded is FALSE when __init__
\* catches an exception, engine is whether RAGASMetrics was imported.
HandlerInit ==
    /\ srv.pc = "init"
    /\ \E loaded \in BOOLEAN, engine \in BOOLEAN :
         LET api_key == srv.request.api_key
             environ == IF api_key # "" THEN api_key ELSE srv.environ
         IN  srv' = [srv EXCEPT
                       !.pc = "dataset",
                       !.environ = environ,
                       !.evaluator =
                          IF loaded
                          THEN [embedding_model |-> TRUE,
                                openai_client |-> OpenAIClient(api_key, environ),
                                ragas_metrics |-> engine]
                          ELSE NoEvaluator]
    /\ UNCHANGED <<sem, nv, met, ev, an, tg, ch>>

\* What a question generator does: it is not there or raises, or it returns
\* a list of questions of some size.
GeneratorOutcomes(sizes) ==
    {[raised |-> TRUE, size |-> 0]} \cup {[raised |-> FALSE, size |-> k] : k \in sizes}

\* evaluation.py:493-563: the source and the size of the test dataset, for
\* the number of custom questions, the presence of document content and of
\* an API key, and the outcomes of the two generators.
CreateTestDataset(custom_questions, document, api_key, advanced, domain) ==
    IF custom_questions >= 4
    THEN [source |-> "custom", size |-> custom_questions]
    ELSE IF document /\ api_key # "" /\ ~advanced.raised /\ advanced.size >= 4
    THEN [source |-> "advanced", size |-> advanced.size]
    ELSE IF document /\ ~domain.raised /\ domain.size >= 4
    THEN [source |-> "domain", size |-> domain.size]
    ELSE [source |-> "default", size |-> 8]

\* evaluation.py:619-623
HandlerDataset ==
    /\ srv.pc = "dataset"
    /\ \E advanced \in GeneratorOutcomes({0, 4, 8}), domain \in GeneratorOutcomes({2, 4, 8}) :
         srv' = [srv EXCEPT
                   !.pc = "evaluate",
                   !.test_dataset =
                      CreateTestDataset(srv.request.custom_questions, srv.request.document,
                                        srv.request.api_key, advanced, domain)]
    /\ UNCHANGED <<sem, nv, met, ev, an, tg, ch>>

\* evaluation.py:625-659: both strategies are evaluated on the test dataset
\* and the response is sent: 200 with the results, or 500 when
\* evaluate_strategy raised (an empty chunk set).  generation is how the
\* answers were generated.
HandlerEvaluate ==
    /\ srv.pc = "evaluate"
    /\ srv' = [srv EXCEPT
                 !.pc = "idle",
                 !.served = srv.served + 1,
                 !.response =
                    IF srv.request.empty_chunks
                    THEN [status |-> 500, success |-> FALSE, error_type |-> "ValueError"]
                    ELSE [status |-> 200, success |-> TRUE,
                          test_dataset_size |-> srv.test_dataset.size,
                          test_dataset |-> srv.test_dataset.source,
                          generation |-> IF srv.evaluator.openai_client # ""
                                         THEN "hosted" ELSE "extractive"]]
    /\ UNCHANGED <<sem, nv, met, ev, an, tg, ch>>

----------------------------------------------------------------------------
(* DomainSpecificTestGenerator.generate_test_set (test_generator.py:42-93) *)

\* Bounds of the generator model: the key facts of a document and the
\* important words of one fact.
MaxKeyFacts == 2
MaxFactSubjects == 2

\* test_generator.py:62-68
QuestionTypes == <<"definition", "fact", "entity", "relationship", "summary">>

\* What the extraction steps (test_generator.py:53-57) find in a document:
\* its key facts, each with the number of its important words, and the
\* numbers of its definitions, entities and relationships.
Documents ==
    [facts : SeqsUpTo(0..MaxFactSubjects, MaxKeyFacts), definitions : 0..1,
     entities : 0..1, relationships : 0..1]

NumQuestionsChoices == {3, 8}

\* test_generator.py:228-256: the questions _generate_fact_question can
\* return: a random fact with a random one of its important words, or with
\* the fixed question when it has none.
FactQuestions(doc) ==
    UNION {{<<"fact", f, w>> : w \in IF doc.facts[f] = 0 THEN {0} ELSE 1..doc.facts[f]} :
             f \in DOMAIN doc.facts}

\* The questions the generator of a type can return (test_generator.py:
\* 210-335): a random definition; a random fact question; a random entity
\* in one of four templates; a random relationship in one of three
\* templates; the one summary question of the facts.  No questions stands
\* for empty data (the generator is not called).
TypeQuestions(doc, type) ==
    CASE type = "definition"   -> {<<"definition", i, 0>> : i \in 1..doc.definitions}
      [] type = "fact"         -> FactQuestions(doc)
      [] type = "entity"       -> {<<"entity", i, t>> : i \in 1..doc.entities, t \in 1..4}
      [] type = "relationship" -> {<<"relationship", i, t>> :
                                     i \in 1..doc.relationships, t \in 1..3}
      [] type = "summary"      -> IF doc.facts = <<>> THEN {} ELSE {<<"summary", 0, 0>>}

NoQuestion == <<"", 0, 0>>

TgIdle == [pc |-> "idle"]

\* test_generator.py:42-71: the extraction results, num_questions,
\* questions_per_type and remaining.
TgInit ==
    \E doc \in Documents, num_questions \in NumQuestionsChoices :
        LET per_type == IF num_questions \div Len(QuestionTypes) > 1
                        THEN num_questions \div Len(QuestionTypes) ELSE 1
        IN  tg = [pc |-> "types", doc |-> doc, num_questions |-> num_questions,
                  questions_per_type |-> per_type,
                  remaining |-> num_questions - per_type * Len(QuestionTypes),
                  type |-> 1, done |-> 0, question_data |-> NoQuestion,
                  test_set |-> <<>>, result |-> <<>>]

\* test_generator.py:73-82: one iteration of the inner loop for the current
\* question type (done counts its finished iterations); after the last one
\* the outer loop moves to the next type.
TgTypeQuestion ==
    /\ tg.pc = "types"
    /\ LET count == tg.questions_per_type + (IF tg.remaining > 0 THEN 1 ELSE 0)
           data  == TypeQuestions(tg.doc, QuestionTypes[tg.type])
           last  == tg.done + 1 = count
           moved == [tg EXCEPT
                       !.done = IF last THEN 0 ELSE tg.done + 1,
                       !.type = IF last /\ tg.type < Len(QuestionTypes)
                                THEN tg.type + 1 ELSE tg.type,
                       !.remaining = IF last /\ tg.remaining > 0
                                     THEN tg.remaining - 1 ELSE tg.remaining,
                       !.pc = IF last /\ tg.type = Len(QuestionTypes)
                              THEN "fill" ELSE "types"]
       IN  IF data = {} THEN tg' = moved
           ELSE \E question_data \in data :
                  tg' = [moved EXCEPT !.question_data = question_data,
                                      !.test_set = Append(tg.test_set, question_data)]
    /\ UNCHANGED <<sem, nv, met, ev, an, srv, ch>>

\* test_generator.py:85-88: one iteration of the fill loop; a question that
\* is already in the test set is not added.
TgFill ==
    /\ tg.pc = "fill"
    /\ Len(tg.test_set) < tg.num_questions
    /\ tg.doc.facts # <<>>
    /\ \E question_data \in FactQuestions(tg.doc) :
         tg' = [tg EXCEPT
                  !.question_data = question_data,
                  !.test_set = IF question_data \in Range(tg.test_set) THEN tg.test_set
                               ELSE Append(tg.test_set, question_data)]
    /\ UNCHANGED <<sem, nv, met, ev, an, srv, ch>>

\* test_generator.py:85, 91: the fill loop is left and the first
\* num_questions questions are returned.
TgReturn ==
    /\ tg.pc = "fill"
    /\ ~(Len(tg.test_set) < tg.num_questions /\ tg.doc.facts # <<>>)
    /\ tg' = [tg EXCEPT !.pc = "done", !.result = Head_(tg.test_set, tg.num_questions)]
    /\ UNCHANGED <<sem, nv, met, ev, an, srv, ch>>

----------------------------------------------------------------------------
(* LightweightChunker: get_embeddings_batch and two semantic_chunk calls   *)
(* on one text (chunking.py:39-59, 80-140)                                 *)

\* chunking.py:43 and :59: np.random.rand(1536) for every text, a fresh draw
\* on every call, so any vector of non-negative components can come back.
RandomEmbeddings(n) == [1..n -> EmbeddingChoices]

\* chunking.py:39-59: the vectors get_embeddings_batch can return for n
\* texts.  provider is the outcome of client.embeddings.create: it raised,
\* or it returned provider.embeddings.
GetEmbeddingsBatch(api_key, provider, n) ==
    IF api_key = "" THEN RandomEmbeddings(n)
    ELSE IF provider.raised THEN RandomEmbeddings(n)
    ELSE {provider.embeddings}

\* chunking.py:153-156: the average token_count of a list of chunks, 0 for
\* an empty list.
AvgTokenCount(chunks) ==
    IF chunks = <<>> THEN Zero
    ELSE Frac(SumSeq([k \in 1..Len(chunks) |-> chunks[k].token_count]), Len(chunks))

ChIdle == [pc |-> "idle"]

\* A chunker (with or without an API key) and the text it is asked to chunk
\* twice: the sentences' token counts, the vectors the provider returns for
\* them when it answers, and the parameters of the two calls, which differ at
\* most in similarity_threshold.
ChInit ==
    \E key \in {"", "k0"} :
      \E n \in 0..(IF key = "" THEN MaxSentences ELSE MaxSentences - 1) :
        \E toks \in [1..n -> 1..MaxSentenceTokens],
           embs \in (IF key = "" THEN {[k \in 1..n |-> <<1, 0>>]}
                                 ELSE [1..n -> EmbeddingChoices]),
           thr1 \in ThresholdChoices, thr2 \in ThresholdChoices,
           mx \in MaxTokensChoices, mn \in MinTokensChoices :
          /\ FLe(thr1, thr2)
          /\ ch = [pc |-> "call", api_key |-> key, sentence_tokens |-> toks,
                   provider_embeddings |-> embs,
                   similarity_threshold |-> <<thr1, thr2>>,
                   max_tokens |-> mx, min_tokens |-> mn,
                   call |-> 1, fallback |-> <<>>, embeddings |-> <<>>,
                   results |-> <<>>]

\* chunking.py:80-89: a semantic_chunk call; the sentence embeddings are
\* what get_embeddings_batch returns this time.
ChCall ==
    /\ ch.pc = "call"
    /\ \E raised \in BOOLEAN :
         \E e \in GetEmbeddingsBatch(ch.api_key,
                                     [raised |-> raised,
                                      embeddings |-> ch.provider_embeddings],
                                     Len(ch.sentence_tokens)) :
           /\ sem' = [SemIdle EXCEPT !.pc = "start",
                                     !.sentence_tokens = ch.sentence_tokens,
                                     !.embeddings_array = e,
                                     !.similarity_threshold = ch.similarity_threshold[ch.call],
                                     !.max_tokens = ch.max_tokens,
                                     !.min_tokens = ch.min_tokens]
           /\ ch' = [ch EXCEPT !.pc = "walk",
                               !.fallback = Append(@, ch.api_key = "" \/ raised),
                               !.embeddings = Append(@, e)]
    /\ UNCHANGED <<nv, met, ev, an, srv, tg>>

\* chunking.py:140: the call returns its chunks; the caller keeps them and,
\* after the first call, calls again.
ChReturn ==
    /\ ch.pc = "walk"
    /\ sem.pc = "done"
    /\ ch' = [ch EXCEPT !.results = Append(@, sem.chunks),
                        !.call = @ + 1,
                        !.pc = IF ch.call = 1 THEN "call" ELSE "done"]
    /\ sem' = SemIdle
    /\ UNCHANGED <<nv, met, ev, an, srv, tg>>

----------------------------------------------------------------------------
(* Specifications                                                          *)

InitSemantic == SemInit /\ nv = NvIdle /\ met = MetIdle
    /\ ev = EvIdle /\ an = AnIdle
    /\ srv = SrvIdle /\ tg = TgIdle /\ ch = ChIdle

NextSemantic == SemStart \/ SemStep \/ SemFlush

SpecSemantic == InitSemantic /\ [][NextSemantic]_vars

InitNaive == NvInit /\ sem = SemIdle /\ met = MetIdle
    /\ ev = EvIdle /\ an = AnIdle
    /\ srv = SrvIdle /\ tg = TgIdle /\ ch = ChIdle

NextNaive == NaiveStart \/ NaiveStep \/ NaiveReturn

SpecNaive == InitNaive /\ [][NextNaive]_vars

InitNaive50 == NvInit50 /\ sem = SemIdle /\ met = MetIdle
    /\ ev = EvIdle /\ an = AnIdle
    /\ srv = SrvIdle /\ tg = TgIdle /\ ch = ChIdle

SpecNaive50 == InitNaive50 /\ [][NextNaive]_vars

\* A naive chunking call with the chunk_size and overlap of a request.
InitNaiveConfig == NvInitConfig /\ sem = SemIdle /\ met = MetIdle
    /\ ev = EvIdle /\ an = AnIdle
    /\ srv = SrvIdle /\ tg = TgIdle /\ ch = ChIdle

SpecNaiveConfig == InitNaiveConfig /\ [][NextNaive]_vars

\* One question through the faithfulness metric, without an embedding model.
InitFaith == MetInit({FALSE}, {1}) /\ sem = SemIdle /\ nv = NvIdle
    /\ ev = EvIdle /\ an = AnIdle
    /\ srv = SrvIdle /\ tg = TgIdle /\ ch = ChIdle

NextFaith == MetQuestion(FaithCases) \/ MetAverage

SpecFaith == InitFaith /\ [][NextFaith]_vars

\* One question through the context-precision metric.
InitPrecision == MetInit({FALSE}, {1}) /\ sem = SemIdle /\ nv = NvIdle
    /\ ev = EvIdle /\ an = AnIdle
    /\ srv = SrvIdle /\ tg = TgIdle /\ ch = ChIdle

NextPrecision == MetQuestion(PrecisionCases) \/ MetAverage

SpecPrecision == InitPrecision /\ [][NextPrecision]_vars

\* A test set of up to MaxQuestions questions, with or without an embedding
\* model.
InitMetrics == MetInit(BOOLEAN, 0..MaxQuestions) /\ sem = SemIdle /\ nv = NvIdle
    /\ ev = EvIdle /\ an = AnIdle
    /\ srv = SrvIdle /\ tg = TgIdle /\ ch = ChIdle

NextMetrics == MetQuestion(MetricCases) \/ MetAverage

SpecMetrics == InitMetrics /\ [][NextMetrics]_vars

\* The evaluator's metrics for a test set of up to MaxQuestions questions,
\* with and without the RAGASMetrics engine.
InitRecall == EvMetricsInit /\ sem = SemIdle /\ nv = NvIdle /\ met = MetIdle /\ an = AnIdle
    /\ srv = SrvIdle /\ tg = TgIdle /\ ch = ChIdle

NextRecall == EvMetricsQuestion(RecallCases) \/ EvMetricsReturn

SpecRecall == InitRecall /\ [][NextRecall]_vars

\* One comparison of a naive and a semantic evaluation.
InitAnalysis == AnInit /\ sem = SemIdle /\ nv = NvIdle /\ met = MetIdle /\ ev = EvIdle
    /\ srv = SrvIdle /\ tg = TgIdle /\ ch = ChIdle

NextAnalysis == AnMetric \/ AnSummary

SpecAnalysis == InitAnalysis /\ [][NextAnalysis]_vars

\* Inputs of the answer-correctness model: answers and ground truths of up
\* to MaxFactWords words over a word without facts, an entity, a key term
\* and a number.
CorrectnessCases ==
    {Case(<<Wd("what")>>, a, <<>>, gt, NoCos, NoCos) :
       a  \in SeqsUpTo({Wd("is"), Wd("Paris"), Wd("semantic"), WdEnd("42")}, MaxFactWords),
       gt \in SeqsUpTo({Wd("is"), Wd("Paris"), Wd("semantic"), WdEnd("42")}, MaxFactWords)}

\* One question through the answer-correctness metric, without an embedding
\* model.
InitCorrectness ==
    MetInit({FALSE}, {1}) /\ sem = SemIdle /\ nv = NvIdle /\ ev = EvIdle /\ an = AnIdle
    /\ srv = SrvIdle /\ tg = TgIdle /\ ch = ChIdle

NextCorrectness == MetQuestion(CorrectnessCases) \/ MetAverage

SpecCorrectness == InitCorrectness /\ [][NextCorrectness]_vars

\* One retrieval.
InitRetrieve == EvRetrieveInit /\ sem = SemIdle /\ nv = NvIdle /\ met = MetIdle /\ an = AnIdle
    /\ srv = SrvIdle /\ tg = TgIdle /\ ch = ChIdle

NextRetrieve == EvRetrieve

SpecRetrieve == InitRetrieve /\ [][NextRetrieve]_vars

\* One extractive answer.
InitAnswer == EvAnswerInit /\ sem = SemIdle /\ nv = NvIdle /\ met = MetIdle /\ an = AnIdle
    /\ srv = SrvIdle /\ tg = TgIdle /\ ch = ChIdle

NextAnswer == EvAnswer

SpecAnswer == InitAnswer /\ [][NextAnswer]_vars


\* One call of evaluate_strategy.
InitStrategy ==
    EvStrategyInit /\ sem = SemIdle /\ nv = NvIdle /\ met = MetIdle /\ an = AnIdle
    /\ srv = SrvIdle /\ tg = TgIdle /\ ch = ChIdle

NextStrategy ==
    \/ EvStrategyStats
    \/ EvStrategyQuestion
    \/ EvStrategyPipelineReturn
    \/ EvStrategyScore
    \/ EvStrategyReturn

SpecStrategy == InitStrategy /\ [][NextStrategy]_vars


\* The requests one process serves, one after the other.
InitHandler ==
    SrvInit /\ sem = SemIdle /\ nv = NvIdle /\ met = MetIdle /\ ev = EvIdle /\ an = AnIdle
    /\ tg = TgIdle /\ ch = ChIdle

NextHandler == HandlerReceive \/ HandlerInit \/ HandlerDataset \/ HandlerEvaluate

SpecHandler == InitHandler /\ [][NextHandler]_vars

\* One call of generate_test_set.
InitGenerator ==
    TgInit /\ sem = SemIdle /\ nv = NvIdle /\ met = MetIdle /\ ev = EvIdle /\ an = AnIdle
    /\ srv = SrvIdle /\ ch = ChIdle

NextGenerator == TgTypeQuestion \/ TgFill \/ TgReturn

SpecGenerator == InitGenerator /\ [][NextGenerator]_vars


\* Two semantic_chunk calls on one text by one chunker.
InitRepeat ==
    ChInit /\ sem = SemIdle /\ nv = NvIdle /\ met = MetIdle /\ ev = EvIdle /\ an = AnIdle
    /\ srv = SrvIdle /\ tg = TgIdle

NextRepeat == ChCall \/ SemStart \/ SemStep \/ SemFlush \/ ChReturn

SpecRepeat == InitRepeat /\ [][NextRepeat]_vars


\* A test set of up to MaxQuestions questions through both metric engines.
InitAveraging == MetInit(BOOLEAN, 0..MaxQuestions) /\ sem = SemIdle /\ nv = NvIdle
    /\ ev = EvIdle /\ an = AnIdle
    /\ srv = SrvIdle /\ tg = TgIdle /\ ch = ChIdle

NextAveraging == MetQuestion(AveragingCases) \/ MetAverage

SpecAveraging == InitAveraging /\ [][NextAveraging]_vars

----------------------------------------------------------------------------
(* Claims about the semantic chunker                                       *)

SemDone == sem.pc = "done"

\* The sentences of the open chunks that were closed or flushed below
\* min_tokens.
SemBelowMinimum ==
    UNION {Range(sem.closed[k].sentences) :
             k \in {j \in DOMAIN sem.closed : sem.closed[j].tokens < sem.min_tokens}}

SemEmitted == UNION {Range(sem.chunks[k].sentences) : k \in DOMAIN sem.chunks}

\* C1: a sentence compared against a non-empty open chunk is appended to it
\* iff similarity >= similarity_threshold and current_tokens +
\* candidate_tokens <= max_tokens, and otherwise becomes the first sentence
\* of a new open chunk; no emitted chunk with more than one sentence has
\* token_count > max_tokens.
C1_MergeRule ==
    /\ sem.last # NoCmp =>
         LET c == sem.last
             cand == sem.sentence_tokens[c.i]
         IN  IF /\ SimGE(c.similarity, sem.similarity_threshold)
                /\ c.tokens + cand <= sem.max_tokens
             THEN /\ sem.current_chunk = Append(c.open, c.i)
                  /\ sem.current_tokens = c.tokens + cand
             ELSE /\ sem.current_chunk = <<c.i>>
                  /\ sem.current_tokens = cand
    /\ \A k \in DOMAIN sem.chunks :
         sem.chunks[k].sentence_count > 1 => sem.chunks[k].token_count <= sem.max_tokens

\* A finished walk that emitted a multi-sentence chunk and whose last
\* sentence was similar enough but did not fit the token budget.
C1_Witness ==
    /\ SemDone
    /\ \E k \in DOMAIN sem.chunks : sem.chunks[k].sentence_count > 1
    /\ sem.last # NoCmp
    /\ SimGE(sem.last.similarity, sem.similarity_threshold)
    /\ sem.last.tokens + sem.sentence_tokens[sem.last.i] > sem.max_tokens
    /\ sem.current_chunk = <<sem.last.i>>

\* C2: the similarity used for sentence i is the cosine similarity between
\* sentence i's embedding and the mean of the embeddings of exactly the
\* sentences in the open chunk, for every open chunk of the walk.
C2_SimilarityOfOpenChunk ==
    sem.last # NoCmp =>
      SimEq(sem.last.similarity,
            CosineSimilarity(MeanEmbedding(sem.embeddings_array, sem.last.open),
                             sem.embeddings_array[sem.last.i]))

\* C3: every emitted chunk has token_count >= min_tokens, and no open chunk
\* closed or flushed below min_tokens is among the emitted chunks.
C3_EmittedMeetMinimum ==
    /\ \A k \in DOMAIN sem.chunks : sem.chunks[k].token_count >= sem.min_tokens
    /\ \A j \in DOMAIN sem.closed :
         sem.closed[j].tokens < sem.min_tokens =>
           \A k \in DOMAIN sem.chunks : sem.chunks[k].sentences # sem.closed[j].sentences

\* A finished walk with one chunk emitted in the middle, one emitted by the
\* final flush, and an open chunk dropped below the minimum.
C3_Witness ==
    /\ SemDone
    /\ Len(sem.chunks) = 2
    /\ sem.chunks[2].sentences = sem.current_chunk
    /\ \E j \in DOMAIN sem.closed : sem.closed[j].tokens < sem.min_tokens

\* C4: the emitted chunks are pairwise disjoint contiguous runs of sentences
\* in document order, each chunk's index is its 0-based output position, and
\* at the end the sentences in no emitted chunk are exactly those of the
\* open chunks closed or flushed below min_tokens.
C4_DisjointOrderedRuns ==
    /\ \A k \in DOMAIN sem.chunks :
         LET s == sem.chunks[k].sentences
         IN  /\ sem.chunks[k].index = k - 1
             /\ s # <<>>
             /\ \A j \in 1..(Len(s) - 1) : s[j + 1] = s[j] + 1
             /\ k > 1 => sem.chunks[k - 1].sentences[Len(sem.chunks[k - 1].sentences)] < s[1]
    /\ SemDone => (DOMAIN sem.sentence_tokens) \ SemEmitted = SemBelowMinimum

\* A finished walk that dropped a sentence and emitted a chunk after it.
C4_WitnessDropped ==
    /\ SemDone
    /\ SemBelowMinimum # {}
    /\ \E k \in DOMAIN sem.chunks : \E d \in SemBelowMinimum : sem.chunks[k].sentences[1] > d

----------------------------------------------------------------------------
(* Claims about the naive chunker                                          *)

NvDone == nv.pc = "done"

CeilDiv(a, b) == (a + b - 1) \div b

\* C5: one chunk per window start 0, s, 2s, ... < T with s = chunk_size -
\* overlap; chunk k holds tokens[k*s : min(k*s + chunk_size, T)], is
\* non-empty and at most chunk_size long, start_token is k*s, the final
\* partial window is emitted, and T = 0 yields no chunks.
C5_OneChunkPerWindow ==
    LET T == Len(nv.tokens)
        s == nv.chunk_size - nv.overlap
    IN  /\ \A n \in DOMAIN nv.chunks :
             LET k  == n - 1
                 hi == IF k * s + nv.chunk_size <= T THEN k * s + nv.chunk_size ELSE T
             IN  /\ k * s < T
                 /\ nv.chunks[n].tokens = [j \in 1..(hi - k * s) |-> nv.tokens[k * s + j]]
                 /\ nv.chunks[n].token_count = hi - k * s
                 /\ nv.chunks[n].token_count >= 1
                 /\ nv.chunks[n].token_count <= nv.chunk_size
                 /\ nv.chunks[n].start_token = k * s
        /\ NvDone => Len(nv.chunks) = Cardinality({k \in 0..T : k * s < T})

\* A finished run whose last window is partial.
C5_Witness ==
    /\ NvDone
    /\ Len(nv.chunks) >= 3
    /\ nv.overlap > 0
    /\ nv.chunks[Len(nv.chunks)].token_count < nv.chunk_size

RECURSIVE DropOverlaps(_, _)
DropOverlaps(chunks, overlap) ==
    IF chunks = <<>> THEN <<>>
    ELSE Slice(chunks[1].tokens, overlap, Len(chunks[1].tokens))
           \o DropOverlaps(Tail(chunks), overlap)

\* C6: the first chunk's tokens followed by each later chunk's tokens with
\* its first `overlap` tokens removed is the original token sequence.
C6_Reconstructs ==
    NvDone =>
      IF nv.chunks = <<>> THEN nv.tokens = <<>>
      ELSE nv.chunks[1].tokens \o DropOverlaps(Tail(nv.chunks), nv.overlap) = nv.tokens

\* A finished run with overlap whose last chunk is no longer than the overlap.
C6_Witness ==
    /\ NvDone
    /\ nv.overlap > 0
    /\ Len(nv.chunks) >= 3
    /\ nv.chunks[Len(nv.chunks)].token_count <= nv.overlap

\* C7 as stated: with chunk_size = 50 and overlap = 10 a document of
\* total_tokens >= 50 gives exactly ceil((total_tokens - 50) / 40) + 1 chunks,
\* each of at most 50 tokens.
C7_ChunkCountAsStated ==
    (NvDone /\ nv.chunk_size = 50 /\ nv.overlap = 10 /\ Len(nv.tokens) >= 50) =>
      /\ Len(nv.chunks) = CeilDiv(Len(nv.tokens) - 50, 40) + 1
      /\ \A n \in DOMAIN nv.chunks : nv.chunks[n].token_count <= 50

\* C7 amended: the number of chunks is ceil(total_tokens / 40), that is
\* ceil((total_tokens - 40) / 40) + 1, each of at most 50 tokens.
C7_ChunkCount ==
    (NvDone /\ nv.chunk_size = 50 /\ nv.overlap = 10 /\ Len(nv.tokens) >= 50) =>
      /\ Len(nv.chunks) = CeilDiv(Len(nv.tokens) - 40, 40) + 1
      /\ Len(nv.chunks) = CeilDiv(Len(nv.tokens), 40)
      /\ \A n \in DOMAIN nv.chunks : nv.chunks[n].token_count <= 50

\* A finished run on 50 tokens: the windows at 0 and at 40.
C7_Witness ==
    /\ NvDone
    /\ nv.chunk_size = 50 /\ nv.overlap = 10
    /\ Len(nv.tokens) = 50
    /\ Len(nv.chunks) = 2

----------------------------------------------------------------------------
(* Claims about the RAGAS metrics                                          *)

MetDone == met.pc = "done"

MetricNames ==
    {"faithfulness", "answer_relevancy", "context_precision", "context_recall",
     "answer_correctness"}

\* The per-question metrics of the question processed last, and the scores
\* the compute_* loops appended for it.
LastSingle == met.single[Len(met.single)]

LastListed == [m \in MetricNames |-> met.lists[m][Len(met.lists[m])]]

\* C8: every per-question score and every averaged score of the five
\* metrics lies in [0,1], on the embedding path and on the fallback path.
C8_ScoresInUnit ==
    /\ \A k \in DOMAIN met.single : \A m \in MetricNames : InUnit(met.single[k][m])
    /\ \A m \in MetricNames : \A k \in DOMAIN met.lists[m] : InUnit(met.lists[m][k])
    /\ MetDone => \A m \in MetricNames : InUnit(met.averaged[m])

\* No clause of the text has more than 3 words.
NoStatement(text) == \A k \in DOMAIN SplitSentences(text) : Len(SplitSentences(text)[k]) <= 3

FSum(s) ==
    LET RECURSIVE Go(_)
        Go(r) == IF r = <<>> THEN Zero ELSE FAdd(r[1], Go(Tail(r)))
    IN  Go(s)

\* C10: with relevance flags r_0..r_(n-1), context precision is the sum over
\* the relevant positions k of (relevant chunks at positions <= k) / (k+1),
\* divided by the number of relevant chunks; 0.0 with no relevant chunk or
\* no context; no division by zero; 1.0 exactly when some chunk is relevant
\* and no irrelevant chunk is ranked before a relevant one.
C10_ContextPrecision ==
    met.cur # NoCase =>
      LET c == met.cur
          r == RelevanceScores(c.question, c.contexts, c.ground_truth)
          n == Len(r)
          R == Cardinality({k \in 1..n : r[k] = 1})
          terms == [k \in 1..n |->
                      IF r[k] = 1 THEN <<Cardinality({j \in 1..k : r[j] = 1}), k>> ELSE Zero]
          expected == IF R = 0 THEN Zero ELSE FDiv(FSum(terms), <<R, 1>>)
          p == LastSingle.context_precision
      IN  /\ p[2] > 0
          /\ FLe(p, expected) /\ FLe(expected, p)
          /\ LastListed.context_precision = p
          /\ (n = 0 \/ R = 0) => p = Zero
          /\ (p = One) <=> (R >= 1 /\ \A k \in 1..n : r[k] = 1 => \A j \in 1..k : r[j] = 1)

\* Three contexts, the first irrelevant and the other two relevant:
\* (1/2 + 2/3) / 2 = 7/12.
C10_Witness ==
    /\ MetDone
    /\ met.cur # NoCase
    /\ RelevanceScores(met.cur.question, met.cur.contexts, met.cur.ground_truth) = <<0, 1, 1>>
    /\ LastSingle.context_precision = <<7, 12>>
    /\ met.averaged.context_precision = <<7, 12>>

----------------------------------------------------------------------------
(* Claims about the metrics the evaluator reports                          *)

\* The context recall appended for the question processed last.
EvLastRecall == ev.lists.context_recall[Len(ev.lists.context_recall)]

\* C11: the context recall of a question is 1.0 whenever its ground truth is
\* the empty string, for any context list, and 0.0 whenever its context list
\* is empty and its ground truth is not, with the RAGASMetrics engine and
\* with the evaluator's built-in implementation; a one-question test set
\* reports that score.
C11_RecallVacuousCases ==
    (ev.pc \in {"metrics", "done"} /\ ev.cur # NoCase) =>
      /\ ev.cur.ground_truth = <<>> => EvLastRecall = One
      /\ (ev.cur.contexts = <<>> /\ ev.cur.ground_truth # <<>>) => EvLastRecall = Zero
      /\ (ev.pc = "done" /\ ev.n = 1) => ev.ragas.context_recall = EvLastRecall

----------------------------------------------------------------------------
(* Claims about answer correctness                                         *)

\* 2PR/(P+R) of two fact sets, 0 when P + R = 0.
PureF1(A, B) ==
    LET common == Cardinality(A \cap B)
        P == IF A = {} THEN Zero ELSE Frac(common, Cardinality(A))
        R == IF B = {} THEN Zero ELSE Frac(common, Cardinality(B))
    IN  IF FAdd(P, R) = Zero THEN Zero
        ELSE FDiv(FMul(<<2, 1>>, FMul(P, R)), FAdd(P, R))

\* C12: without an embedding model the answer correctness of a non-empty
\* answer and a non-empty ground truth is the set-overlap F1 of their fact
\* sets, and an empty answer or ground truth scores 0.0.
C12_CorrectnessIsPureF1 ==
    (met.cur # NoCase /\ ~met.embedding_model) =>
      LET c == met.cur
      IN  /\ (c.answer # <<>> /\ c.ground_truth # <<>>) =>
                /\ LastSingle.answer_correctness =
                     PureF1(ExtractFacts(c.answer), ExtractFacts(c.ground_truth))
                /\ LastListed.answer_correctness = LastSingle.answer_correctness
          /\ (c.answer = <<>> \/ c.ground_truth = <<>>) =>
                /\ LastSingle.answer_correctness = Zero
                /\ LastListed.answer_correctness = Zero

----------------------------------------------------------------------------
(* Claims about retrieval                                                  *)

EvRetrieved == ev.pc = "done" /\ "relevant_chunks" \in DOMAIN ev

\* The one-to-one assignments of the returned texts to positions of the
\* chunk list.
ReturnedPositions ==
    {f \in [1..Len(ev.relevant_chunks) -> 1..Len(ev.chunks)] :
       /\ \A j, k \in DOMAIN f : j # k => f[j] # f[k]
       /\ \A j \in DOMAIN f : ev.relevant_chunks[j] = ev.chunks[f[j]]}

\* C13: retrieval returns exactly min(top_k, number of chunks) chunk texts,
\* each from a distinct position of the chunk list, and the empty sequence
\* for an empty chunk list.
C13_AtMostTopKDistinct ==
    EvRetrieved =>
      /\ Len(ev.relevant_chunks) = Min(ev.top_k, Len(ev.chunks))
      /\ Len(ev.relevant_chunks) <= Len(ev.chunks) => ReturnedPositions # {}
      /\ ev.chunks = <<>> => ev.relevant_chunks = <<>>

\* The positions of a chunk list ranked by a score, highest first, equal
\* scores in original order: position i has rank 1 + the number of positions
\* that score higher or score the same and come earlier.
StableRanking(score) ==
    LET n == Len(score)
        rank(i) == 1 + Cardinality({j \in 1..n :
                                      score[j] > score[i] \/ (score[j] = score[i] /\ j < i)})
    IN  [r \in 1..n |-> CHOOSE i \in 1..n : rank(i) = r]

\* C14: on the embedding path the returned chunks are the top_k of the
\* chunks ranked by similarity, highest first, equal similarities in
\* original chunk order.
C14_StableSimilarityRanking ==
    (EvRetrieved /\ ev.embedded /\ ev.top_k >= 1) =>
      LET ranking == Head_(StableRanking(ev.similarities), ev.top_k)
      IN  ev.relevant_chunks = [j \in 1..Len(ranking) |-> ev.chunks[ranking[j]]]

\* len(set(question.lower().split()) & set(chunk.lower().split()))
WordOverlap(question, chunk) == Cardinality(WordSet(question) \cap WordSet(chunk))

\* C15: without an embedding model, or when the embedding call fails, the
\* returned chunks are the top_k of the chunks ranked by the number of
\* lowercased whitespace tokens they share with the question, equal counts
\* in original chunk order.
C15_FallbackOverlapRanking ==
    (EvRetrieved /\ ~ev.embedded) =>
      LET overlap == [i \in 1..Len(ev.chunks) |-> WordOverlap(ev.question, ev.chunks[i])]
          ranking == Head_(StableRanking(overlap), ev.top_k)
      IN  ev.relevant_chunks = [j \in 1..Len(ranking) |-> ev.chunks[ranking[j]]]

----------------------------------------------------------------------------
(* Claims about the extractive answer                                      *)

EvAnswered == ev.pc = "done" /\ "answer" \in DOMAIN ev

\* The relevance score of every context sentence, in context order.
AnswerScores ==
    LET cs == ContextSentences(ev.contexts)
    IN  [k \in DOMAIN cs |-> RelevanceScore(QuestionWords(ev.question), cs[k])]

\* C16: when some context sentence contains a question keyword, the answer
\* is made of context sentences that score above 0, taken highest score
\* first with equal scores in context order: the first three (or all, if
\* fewer qualify), and the fourth exactly when a fourth qualifies and the
\* first three joined are shorter than 50 characters; never more than four
\* sentences and never one that scores 0.
C16_ExtractiveAnswer ==
    (EvAnswered /\ \E k \in DOMAIN AnswerScores : AnswerScores[k] > 0) =>
      LET cs         == ContextSentences(ev.contexts)
          qualifying == Cardinality({k \in DOMAIN cs : AnswerScores[k] > 0})
          ranking    == StableRanking(AnswerScores)
          top        == [j \in 1..Min(3, qualifying) |-> cs[ranking[j]]]
          expected   == IF qualifying >= 4 /\ JoinedLength(top) < 50
                        THEN Append(top, cs[ranking[4]]) ELSE top
      IN  /\ ev.answer.message = ""
          /\ ev.answer.sentences = expected
          /\ Len(ev.answer.sentences) <= 4
          /\ \A j \in DOMAIN ev.answer.sentences :
                RelevanceScore(QuestionWords(ev.question), ev.answer.sentences[j]) > 0

\* Four sentences qualify, the best-scoring one is not the first of the
\* context, and the first three are short enough for the fourth to follow.
C16_Witness ==
    /\ EvAnswered
    /\ Len(ev.answer.sentences) = 4
    /\ AnswerScores[1] = 1
    /\ RelevanceScore(QuestionWords(ev.question), ev.answer.sentences[1]) = 2
    /\ ev.answer.sentences[2] = ContextSentences(ev.contexts)[1]

\* C17 as stated: the answer is never empty; without contexts it is the
\* "no context" message, and with contexts of which no sentence contains a
\* question keyword it is the first context sentence.
C17_DegenerateAsStated ==
    EvAnswered =>
      LET cs == ContextSentences(ev.contexts)
      IN  /\ ev.answer.message # "" \/ ev.answer.sentences # <<>>
          /\ ev.contexts = <<>> => ev.answer = MessageAnswer(NoContextMessage)
          /\ (ev.contexts # <<>> /\ \A k \in DOMAIN cs : AnswerScores[k] = 0) =>
                /\ cs # <<>>
                /\ ev.answer = SentenceAnswer(<<cs[1]>>)

\* C17 amended: the answer is never empty; without contexts it is the "no
\* context" message; with contexts that hold a sentence but none that
\* contains a question keyword it is the first context sentence; with
\* contexts that hold no sentence at all it is the "unable to generate"
\* message.
C17_Degenerate ==
    EvAnswered =>
      LET cs == ContextSentences(ev.contexts)
      IN  /\ ev.answer.message # "" \/ ev.answer.sentences # <<>>
          /\ \A j \in DOMAIN ev.answer.sentences : ev.answer.sentences[j] # <<>>
          /\ ev.contexts = <<>> => ev.answer = MessageAnswer(NoContextMessage)
          /\ (ev.contexts # <<>> /\ cs # <<>> /\ \A k \in DOMAIN cs : AnswerScores[k] = 0) =>
                ev.answer = SentenceAnswer(<<cs[1]>>)
          /\ (ev.contexts # <<>> /\ cs = <<>>) => ev.answer = MessageAnswer(UnableMessage)

\* A question without keywords over a context of several sentences: the
\* answer is the first of them.
C17_Witness ==
    /\ EvAnswered
    /\ QuestionWords(ev.question) = {}
    /\ Len(ContextSentences(ev.contexts)) >= 2
    /\ ev.answer = SentenceAnswer(<<ContextSentences(ev.contexts)[1]>>)

----------------------------------------------------------------------------
(* Claims about the statistical comparison                                 *)

AnDone == an.pc = "done"

\* C18: for every metric of the naive scores, the improvement is
\* ((semantic - naive) / naive) * 100 when naive is not 0, 100.0 when naive
\* is 0 and semantic is above 0, and 0.0 when naive is 0 and semantic is not
\* above 0; nothing is divided by zero, and the improvements have the keys
\* of the naive scores.
C18_PercentImprovement ==
    /\ Len(an.ragas_improvements) = Len(an.naive)
    /\ \A k \in DOMAIN an.naive :
         LET naive       == an.naive[k]
             semantic    == an.semantic[k]
             improvement == an.ragas_improvements[k]
         IN  /\ improvement[2] > 0
             /\ naive # Zero =>
                  FMul(improvement, naive) = FMul(FSub(semantic, naive), Hundred)
             /\ (naive = Zero /\ semantic[1] > 0) => improvement = Hundred
             /\ (naive = Zero /\ semantic[1] <= 0) => improvement = Zero
    /\ AnDone => Len(an.ragas_improvements) = Len(MetricOrder)

\* A comparison that meets the three cases: a zero naive score with a
\* positive and with a zero semantic score, and a semantic score below a
\* non-zero naive score.
C18_Witness ==
    /\ AnDone
    /\ \E k \in DOMAIN an.naive :
         an.naive[k] = Zero /\ an.semantic[k] = One /\ an.ragas_improvements[k] = Hundred
    /\ \E k \in DOMAIN an.naive :
         an.naive[k] = Zero /\ an.semantic[k] = Zero /\ an.ragas_improvements[k] = Zero
    /\ \E k \in DOMAIN an.naive :
         an.naive[k] = Half /\ an.semantic[k] = <<3, 8>>
           /\ an.ragas_improvements[k] = <<-25, 1>>

\* C19: comparing an evaluation with itself gives improvements that are all
\* 0.0, an overall improvement of 0, no significant metric and the
\* "Neutral" recommendation, whatever the significance tests return.
C19_SameInputNeutral ==
    (AnDone /\ an.naive = an.semantic) =>
      /\ \A k \in DOMAIN an.ragas_improvements : an.ragas_improvements[k] = Zero
      /\ an.summary.overall_improvement = Zero
      /\ an.summary.significant_metrics = <<>>
      /\ an.summary.recommendation = "Neutral"

\* An evaluation with zero and non-zero scores compared with itself, every
\* significance test coming out significant.
C19_Witness ==
    /\ AnDone
    /\ an.naive = an.semantic
    /\ \E k \in DOMAIN an.naive : an.naive[k] = Zero
    /\ \E k \in DOMAIN an.naive : an.naive[k] # Zero
    /\ \A k \in DOMAIN an.significant : an.significant[k]
    /\ an.summary.recommendation = "Neutral"

\* C20: the recommendation is decided by the overall improvement (the mean
\* of the improvements) and the number n of significant metrics (test
\* significant and improvement above 0), first matching row: Strong iff
\* overall > 10 and n >= 3; else Moderate iff overall > 5 and n >= 2; else
\* Weak iff overall > 0 and n >= 1; else Neutral iff overall > -5; else Not
\* recommended; with n = 0 it is never Strong, Moderate or Weak.
C20_RecommendationTable ==
    AnDone =>
      LET overall  == an.summary.overall_improvement
          n        == Len(an.summary.significant_metrics)
          rec      == an.summary.recommendation
          strong   == FLt(<<10, 1>>, overall) /\ n >= 3
          moderate == ~strong /\ FLt(<<5, 1>>, overall) /\ n >= 2
          weak     == ~strong /\ ~moderate /\ FLt(Zero, overall) /\ n >= 1
          neutral  == ~strong /\ ~moderate /\ ~weak /\ FLt(<<-5, 1>>, overall)
      IN  /\ overall = FDiv(FSum(an.ragas_improvements), <<Len(an.ragas_improvements), 1>>)
          /\ n = Cardinality({k \in DOMAIN an.significant :
                                an.significant[k] /\ an.ragas_improvements[k][1] > 0})
          /\ an.summary.significant_count = n
          /\ (rec = "Strong recommendation") <=> strong
          /\ (rec = "Moderate recommendation") <=> moderate
          /\ (rec = "Weak recommendation") <=> weak
          /\ (rec = "Neutral") <=> neutral
          /\ (rec = "Not recommended") <=> (~strong /\ ~moderate /\ ~weak /\ ~neutral)
          /\ n = 0 => rec \in {"Neutral", "Not recommended"}

\* An overall improvement above 10 with only two significant metrics: the
\* first row does not match and the second does.
C20_Witness ==
    /\ AnDone
    /\ FLt(<<10, 1>>, an.summary.overall_improvement)
    /\ Len(an.summary.significant_metrics) = 2
    /\ an.summary.recommendation = "Moderate recommendation"

\* C21: the confidence level follows the fraction f of significant tests:
\* f >= 0.8 Very High, else f >= 0.6 High, else f >= 0.4 Moderate, else
\* f >= 0.2 Low, else Very Low, and "No data" without tests; a comparison
\* always has five tests, so 0, 1, 2, 3 significant tests give Very Low,
\* Low, Moderate, High and 4 or 5 give Very High.
C21_ConfidenceLevel ==
    /\ ConfidenceLevel(<<>>) = "No data"
    /\ AnDone =>
         LET k     == Cardinality({i \in DOMAIN an.significant : an.significant[i]})
             n     == Len(an.significant)
             level == an.summary.confidence_level
         IN  /\ n = 5
             /\ (level = "Very High") <=> 10 * k >= 8 * n
             /\ (level = "High") <=> (10 * k < 8 * n /\ 10 * k >= 6 * n)
             /\ (level = "Moderate") <=> (10 * k < 6 * n /\ 10 * k >= 4 * n)
             /\ (level = "Low") <=> (10 * k < 4 * n /\ 10 * k >= 2 * n)
             /\ (level = "Very Low") <=> 10 * k < 2 * n
             /\ level = <<"Very Low", "Low", "Moderate", "High", "Very High",
                          "Very High">>[k + 1]

\* Exactly four of the five tests are significant: the fraction is on the
\* 0.8 threshold and the level is Very High.
C21_Witness ==
    /\ AnDone
    /\ Cardinality({i \in DOMAIN an.significant : an.significant[i]}) = 4
    /\ an.summary.confidence_level = "Very High"


----------------------------------------------------------------------------
(* Claims about evaluate_strategy                                          *)

EvStrategyEnded == ev.pc \in {"done", "raised"}

\* C22: evaluating a strategy with no chunks is not fatal: evaluate_strategy
\* returns a result with empty retrieved contexts, the no-context answer
\* for every question and a chunking quality of all zeros, and raises
\* nothing.
C22_EmptyChunksNotFatal ==
    (EvStrategyEnded /\ ev.chunks = <<>>) =>
      /\ ev.pc = "done"
      /\ ev.error = ""
      /\ Len(ev.result.rag_details.answers) = ev.n
      /\ \A k \in DOMAIN ev.result.rag_details.answers :
           /\ ev.result.rag_details.contexts[k] = <<>>
           /\ ev.result.rag_details.answers[k] = MessageText(NoContextMessage)
      /\ ev.result.chunking_quality = ChunkingQuality(ev.embedding_model, <<>>, <<>>)
      /\ ev.result.chunking_quality.chunk_count = 0

\* C24: a failed hosted generation call is never propagated.  The question
\* whose call failed gets the extractive answer of its own retrieved
\* contexts; every question's contexts are a retrieval result for the
\* chunks and its answer is decided by its own call alone; questions,
\* answers, contexts and ground truths stay aligned, one entry per test
\* question; and no evaluation that made a generation call ends raised.
C24_GenerationFailureContained ==
    /\ ev.pc = "raised" => ev.generation = <<>>
    /\ /\ Len(ev.answers) = Len(ev.test_dataset)
       /\ Len(ev.contexts) = Len(ev.test_dataset)
       /\ Len(ev.generation) = Len(ev.test_dataset)
    /\ \A j \in DOMAIN ev.test_dataset :
         LET question == ev.test_dataset[j].question
             fallback == AnswerText(SimulateAnswerGeneration(question, ev.contexts[j]))
         IN  /\ \E o \in EncodeOutcomes(Len(ev.chunks)) :
                   ev.contexts[j] = RelevantChunks(ev.embedding_model, ev.chunks, 3, o)
             /\ (ev.openai_client /\ ev.generation[j].raised) => ev.answers[j] = fallback
             /\ (ev.openai_client /\ ~ev.generation[j].raised) =>
                   ev.answers[j] = ev.generation[j].content
             /\ ~ev.openai_client => ev.answers[j] = fallback
    /\ ev.pc \in {"metrics", "done"} => Len(ev.answers) = ev.n
    /\ ev.pc = "done" =>
         /\ ev.result.rag_details.answers = ev.answers
         /\ ev.result.rag_details.contexts = ev.contexts
         /\ \A m \in {"questions", "answers", "contexts", "ground_truths"} :
              Len(ev.result.rag_details[m]) = ev.n

\* A finished evaluation of two questions whose first generation call failed
\* and whose second succeeded: the first answer is extracted from the
\* contexts, the second is the hosted one.
C24_Witness ==
    /\ ev.pc = "done"
    /\ ev.openai_client
    /\ ev.n = 2
    /\ ev.generation[1].raised
    /\ ~ev.generation[2].raised
    /\ ev.answers[1] = <<Wd("semantic"), Wd("chunks"), Wd("data")>>
    /\ ev.answers[2] = <<Wd("semantic"), WdEnd("data")>>

----------------------------------------------------------------------------
(* Claims about the evaluation request handler                             *)

SrvResponded == srv.pc = "idle" /\ srv.response.status # 0

\* C23: a request whose custom test set has fewer than 4 questions is
\* answered with an input error (a 4xx status); its questions are not
\* replaced by generated or default ones and no evaluation is run on
\* another test set.
C23_SmallTestSetIsInputError ==
    (SrvResponded /\ srv.request.custom_questions \in 1..3 /\ ~srv.request.empty_chunks) =>
      /\ srv.response.status \in 400..499
      /\ srv.test_dataset.source \notin {"advanced", "domain", "default"}

\* C25: requests share no mutable state: how a request is processed depends
\* only on the request (and on what the process was started with).  A
\* request without an API key, in a process started without one, is
\* answered with extractive answers, whatever the requests before it
\* carried; in general the generation provider is the one of the request's
\* own key, or else of the key the process was started with.
C25_RequestsShareNoState ==
    (SrvResponded /\ srv.response.status = 200) =>
      /\ srv.evaluator.openai_client \in {"", OpenAIClient(srv.request.api_key, srv.configured)}
      /\ (srv.request.api_key = "" /\ srv.configured = "") =>
           srv.response.generation = "extractive"

----------------------------------------------------------------------------
(* Claims about the test generator                                         *)

\* C30: generate_test_set terminates for every document and returns at most
\* num_questions questions.  Its fill loop runs until a drawn fact question
\* is new, so it terminates only if, whenever the loop is entered again,
\* some fact question of the document is not yet in the test set.
C30_GenerateTestSetTerminates ==
    /\ tg.pc = "done" => Len(tg.result) <= tg.num_questions
    /\ (tg.pc = "fill" /\ Len(tg.test_set) < tg.num_questions /\ tg.doc.facts # <<>>) =>
         \E question_data \in FactQuestions(tg.doc) : question_data \notin Range(tg.test_set)

----------------------------------------------------------------------------
(* Claims about repeated semantic_chunk calls                              *)

\* Both calls have returned.
ChBothReturned == ch.pc = "done"

\* C26: when the embedding provider is unavailable (no API key, or the
\* embedding call raises), two semantic_chunk calls with the same text,
\* similarity_threshold, max_tokens and min_tokens return identical chunk
\* sequences.
C26_FallbackDeterministic ==
    (/\ ChBothReturned
     /\ ch.fallback = <<TRUE, TRUE>>
     /\ ch.similarity_threshold[1] = ch.similarity_threshold[2])
    => ch.results[1] = ch.results[2]

\* C27: for a fixed text, fixed sentence embeddings, max_tokens and
\* min_tokens, raising similarity_threshold never increases the average
\* token_count of the emitted chunks; and at similarity_threshold = 1.0 a
\* sentence whose similarity to the open chunk is below 1.0 starts a chunk of
\* its own.
C27_ThresholdMonotonic ==
    /\ (/\ ChBothReturned
        /\ ch.embeddings[1] = ch.embeddings[2]
        /\ FLe(ch.similarity_threshold[1], ch.similarity_threshold[2]))
       => FLe(AvgTokenCount(ch.results[2]), AvgTokenCount(ch.results[1]))
    /\ (/\ sem.pc = "walk"
        /\ sem.similarity_threshold = <<1, 1>>
        /\ sem.last.i = sem.i - 1
        /\ sem.last.i # 0
        /\ ~SimGE(sem.last.similarity, <<1, 1>>))
       => sem.current_chunk = <<sem.last.i>>

----------------------------------------------------------------------------
(* Claims about the averaged metrics                                       *)

\* The values compute_per_question_metrics returned for one metric.
PerQuestionValues(name) == [k \in 1..Len(met.single) |-> met.single[k][name]]

\* C28: for equal-length lists of questions, answers, contexts and ground
\* truths, the score each compute_* loop collects for a question is the value
\* compute_per_question_metrics returns for it, each averaged metric of
\* compute_all_metrics is the arithmetic mean of those per-question values,
\* and it is 0.0 for an empty test set.
C28_AveragedIsMeanOfPerQuestion ==
    \A name \in MetricNames :
      /\ met.lists[name] = PerQuestionValues(name)
      /\ met.pc = "done" =>
           /\ met.averaged[name] = MeanOrZero(PerQuestionValues(name))
           /\ met.n = 0 => met.averaged[name] = Zero

\* Witness for C28: a test set of two questions with different per-question
\* metrics has been averaged, with the embedding model loaded, and the
\* averaged context recall lies strictly between the two per-question values.
C28_Witness ==
    /\ met.pc = "done"
    /\ met.embedding_model
    /\ Len(met.single) = 2
    /\ met.single[1].context_recall = One
    /\ met.single[2].context_recall = Zero
    /\ met.single[1].answer_relevancy # met.single[2].answer_relevancy
    /\ met.averaged.context_recall = Half

----------------------------------------------------------------------------
(* Claims about naive chunking with the parameters of a request            *)

\* C29: for every token sequence and every chunk_size/overlap pair a
\* chunking request handler passes through, the window loop of both naive
\* chunkers finishes after finitely many chunks or ends in an error
\* response: while the loop goes on it has made no more windows than there
\* are tokens, and the next window starts after the current one.
C29_NaiveLoopTerminates ==
    nv.pc = "loop" =>
      /\ Len(nv.chunks) <= Len(nv.tokens)
      /\ NaiveLoopContinues(nv.impl, nv.i, Len(nv.tokens),
                            NaiveStepSize(nv.chunk_size, nv.overlap))
           => NaiveStepSize(nv.chunk_size, nv.overlap) > 0
=============================================================================
